---------------------------- MODULE Spec2Model ----------------------------
(***************************************************************************)
(* A model of rust-service/src/main.rs: the scrape orchestrator            *)
(* (run_scrape_job, scrape_and_persist_all_stores), the store paginator    *)
(* (fetch_store_mods), the persistence engine (upsert_store_mods) and the  *)
(* three callers of a scrape job (the periodic timer, trigger_scrape, and  *)
(* ensure_seed_data from get_mods / get_mod_by_id).                        *)
(*                                                                         *)
(* The relational store (Postgres) and the HTTP upstream are the           *)
(* environment: every fetch of a page and every statement of a             *)
(* transaction may succeed or fail.  A transaction works on its own view   *)
(* of the table and the committed table changes only at commit; NOW() is   *)
(* the transaction's start time and the database clock advances between    *)
(* two transactions.                                                       *)
(***************************************************************************)
EXTENDS Naturals, Sequences, FiniteSets

(***************************************************************************)
(* Bounds of the model.                                                    *)
(***************************************************************************)
\* upstream product ids are 1..MaxProducts
MaxProducts == 2
\* timer ticks and HTTP requests that arrive in one behaviour
MaxArrivals == 2
\* SCRAPE_MAX_429_RETRIES ranges over 0..MaxRetries
MaxRetries == 2
\* the numbers of meaningful tokens for which the two thresholds of the
\* model filter are compared
MaxTokens == 6
\* the number of base delays, spread over their range, for which the
\* backoff is computed
BaseSamples == 600
\* a product has up to MaxVariants variants
MaxVariants == 3

(***************************************************************************)
(* Configuration (AppState.stores, ScrapeConfig) and program constants.    *)
(***************************************************************************)
\* state.stores: the configured store ids, in registry order
Stores == <<"s1", "s2">>
StoreIds == {Stores[i] : i \in 1..Len(Stores)}

\* SHOPIFY_PAGE_LIMIT, a value of its range [1, 250]
page_limit == 2
\* SHOPIFY_MAX_PAGES, a value of its range [1, 250]
max_pages == 3
\* const UPSERT_CHUNK_SIZE (400 in the source), scaled down so that a batch
\* of the model splits into more than one INSERT statement
UPSERT_CHUNK_SIZE == 1

\* the tasks that call run_scrape_job: the periodic scraper task and the
\* request handlers the server runs concurrently
Timer == "timer"
Handlers == {"h1", "h2"}
Procs == {Timer} \cup Handlers
NoProc == "none"

\* product content (title, price, tags, ... taken together)
Contents == {"a", "b"}

VARIABLES
    db,         \* normalized_mods: the committed rows
    clock,      \* the database clock read by NOW()
    holder,     \* scrape_lock: the task holding the MutexGuard, or NoProc
    waiters,    \* scrape_lock: the tasks queued in lock().await, in order
    store_concurrency, \* ScrapeConfig.store_concurrency
    pc,         \* where each task is
    req,        \* what each task is serving
    job,        \* locals of scrape_and_persist_all_stores, per task
    tx,         \* the task's call of upsert_store_mods: arguments and outcome
    ret,        \* the value run_scrape_job / the handler returned, per task
    committed,  \* per store, the batch of its latest committed transaction
    arrivals,   \* ticks and requests so far
    paginator,  \* one call of fetch_store_mods: its inputs and its result
    fetcher,    \* one call of fetch_page_payload: its locals and its result
    matcher,    \* one record and one filter set, matched in both forms
    pager,      \* one call of fetch_store_mods, one page request at a time
    backoff,    \* the waits of retry_delay_for_429 over the attempts
    pricer      \* one call of extract_price: the variants and the price

\* the state of the service
service_vars == <<db, clock, holder, waiters, store_concurrency, pc, req,
                  job, tx, ret, committed, arrivals>>

\* the calls of single functions, which the service's steps leave alone
call_vars == <<paginator, fetcher, matcher, pager, backoff, pricer>>

vars == <<db, clock, holder, waiters, store_concurrency, pc, req, job, tx,
          ret, committed, arrivals, paginator, fetcher, matcher, pager,
          backoff, pricer>>

(***************************************************************************)
(* Values.                                                                 *)
(***************************************************************************)
Min(a, b) == IF a < b THEN a ELSE b

Range(f) == {f[i] : i \in DOMAIN f}

\* struct ShopifyProduct: the upstream id and the rest of the product
ShopifyProduct == [id : 1..MaxProducts, content : Contents]

\* the products each store's upstream can list: the first store of the
\* registry lists products 1..MaxProducts, of which product 1 changes its
\* content over time; the other stores have a one-product catalogue
Catalog ==
    [store \in StoreIds |->
        IF store = Stores[1]
        THEN {product \in ShopifyProduct :
                  product.id = 1 \/ product.content = "a"}
        ELSE {product \in ShopifyProduct :
                  product.id = 1 /\ product.content = "a"}]

SeqsUpTo(S, n) == UNION {[1..k -> S] : k \in 0..n}

\* Result<_, AppError>
Ok(v) == [ok |-> TRUE, val |-> v, err |-> ""]
Err(e) == [ok |-> FALSE, val |-> <<>>, err |-> e]

\* what fetch_page_payload returns for one page of a store:
\* Ok(payload.products) or Err(AppError::Upstream)
PageResults(store) ==
    {Ok(products) : products \in SeqsUpTo(Catalog[store], page_limit)}
        \cup {Err("Upstream")}

\* what a store's upstream answers to the requests for pages 1..max_pages
PageScripts(store) == [1..max_pages -> PageResults(store)]

(***************************************************************************)
(* fetch_store_mods and normalize_product.                                 *)
(***************************************************************************)
\* normalize_product: id = "{store.id}:{product.id}"
normalize_product(product, store) ==
    [id |-> <<store, product.id>>, store_id |-> store,
     content |-> product.content]

\* a variant of collect_page: seen_product_ids is not consulted
RECURSIVE collect_page_no_dedup(_, _, _, _)
collect_page_no_dedup(products, i, st, store) ==
    IF i > Len(products) THEN st
    ELSE collect_page_no_dedup(products, i + 1,
             <<Append(st[1], normalize_product(products[i], store)),
               st[2] \cup {products[i].id}, st[3] + 1>>, store)

\* the for loop of fetch_store_mods over one page's products:
\* st = <<collected, seen_product_ids, new_products>>
RECURSIVE collect_page(_, _, _, _)
collect_page(products, i, st, store) ==
    IF i > Len(products) THEN st
    ELSE LET product == products[i] IN
         IF product.id \notin st[2]
         THEN collect_page(products, i + 1,
                  <<Append(st[1], normalize_product(product, store)),
                    st[2] \cup {product.id}, st[3] + 1>>, store)
         ELSE collect_page(products, i + 1, st, store)

\* the loop of fetch_store_mods from page `page` on
RECURSIVE fetch_loop(_, _, _, _, _)
fetch_loop(script, store, page, collected, seen) ==
    LET payload == script[page] IN
    IF ~payload.ok
    THEN IF page = 1 THEN Err(payload.err) ELSE Ok(collected)
    ELSE LET fetched_count == Len(payload.val)
             st == collect_page(payload.val, 1, <<collected, seen, 0>>, store)
         IN
         IF fetched_count = 0 THEN Ok(collected)
         ELSE IF st[3] = 0 THEN Ok(st[1])
         ELSE IF fetched_count < page_limit THEN Ok(st[1])
         ELSE IF page + 1 > max_pages THEN Ok(st[1])
         ELSE fetch_loop(script, store, page + 1, st[1], st[2])

\* a variant of fetch_store_mods: a failed page fails the store, whatever
\* the page
fetch_store_mods_fails_on_any_page(script, store) ==
    IF \E page \in DOMAIN script : ~script[page].ok
    THEN Err("Upstream")
    ELSE fetch_loop(script, store, 1, <<>>, {})

fetch_store_mods(script, store) == fetch_loop(script, store, 1, <<>>, {})

\* whether the loop of fetch_store_mods, from page `page` on, ends at the
\* break of line 411 (a page after the first failed) or of line 446 (the
\* page ceiling), the two breaks that leave pages of the listing unread
RECURSIVE stopped_early(_, _, _, _, _)
stopped_early(script, store, page, collected, seen) ==
    LET payload == script[page] IN
    IF ~payload.ok
    THEN page # 1
    ELSE LET fetched_count == Len(payload.val)
             st == collect_page(payload.val, 1, <<collected, seen, 0>>, store)
         IN
         IF fetched_count = 0 THEN FALSE
         ELSE IF st[3] = 0 THEN FALSE
         ELSE IF fetched_count < page_limit THEN FALSE
         ELSE IF page + 1 > max_pages THEN TRUE
         ELSE stopped_early(script, store, page + 1, st[1], st[2])

\* every result fetch_store_mods can return, per store, over all the answers
\* the upstream can give, with whether its loop stopped early
FetchOutcomes ==
    [store \in StoreIds |->
        {[result |-> fetch_store_mods(script, store),
          partial |-> stopped_early(script, store, 1, <<>>, {})]
         : script \in PageScripts(store)}]

\* every result fetch_store_mods can return, per store, over all the answers
\* the upstream can give
FetchResults ==
    [store \in StoreIds |->
        {fetch_store_mods(script, store) : script \in PageScripts(store)}]

(***************************************************************************)
(* upsert_store_mods: the statements of the transaction, as functions of   *)
(* the transaction's view of the table.  A row is a record                 *)
(* [id, store_id, content, updated_at].                                    *)
(***************************************************************************)
\* mods.chunks(UPSERT_CHUNK_SIZE)
NumChunks(mods) == (Len(mods) + UPSERT_CHUNK_SIZE - 1) \div UPSERT_CHUNK_SIZE

Chunk(mods, k) ==
    SubSeq(mods, (k - 1) * UPSERT_CHUNK_SIZE + 1,
           Min(k * UPSERT_CHUNK_SIZE, Len(mods)))

\* a variant of upsert_chunk: ON CONFLICT (id) DO NOTHING
upsert_chunk_do_nothing(rows, chunk, now) ==
    rows \cup {[id |-> chunk[i].id, store_id |-> chunk[i].store_id,
                content |-> chunk[i].content, updated_at |-> now]
               : i \in {j \in DOMAIN chunk :
                           \A r \in rows : r.id # chunk[j].id}}

\* INSERT ... ON CONFLICT (id) DO UPDATE SET ..., updated_at = NOW()
upsert_chunk(rows, chunk, now) ==
    {r \in rows : \A i \in DOMAIN chunk : chunk[i].id # r.id}
        \cup {[id |-> chunk[i].id, store_id |-> chunk[i].store_id,
               content |-> chunk[i].content, updated_at |-> now]
              : i \in DOMAIN chunk}

\* a variant of prune: the DELETE statements are not scoped by store_id
prune_every_store(rows, store_id, mods, now) ==
    IF mods = <<>>
    THEN {}
    ELSE {r \in rows : ~(r.updated_at < now)}

\* a variant of prune: the rows of the scrape before this one are kept
prune_keeps_previous(rows, store_id, mods, now) ==
    IF mods = <<>>
    THEN {r \in rows : ~(r.store_id = store_id)}
    ELSE {r \in rows : ~(r.store_id = store_id /\ r.updated_at + 1 < now)}

\* a variant of prune: no DELETE for a non-empty batch
prune_keeps_stale(rows, store_id, mods, now) ==
    IF mods = <<>>
    THEN {r \in rows : ~(r.store_id = store_id)}
    ELSE rows

\* a variant of prune: no DELETE for an empty batch
prune_skips_empty(rows, store_id, mods, now) ==
    IF mods = <<>>
    THEN rows
    ELSE {r \in rows : ~(r.store_id = store_id /\ r.updated_at < now)}

\* the two DELETE statements
prune(rows, store_id, mods, now) ==
    IF mods = <<>>
    THEN {r \in rows : ~(r.store_id = store_id)}
    ELSE {r \in rows : ~(r.store_id = store_id /\ r.updated_at < now)}

\* the transaction's view after its first n statements: the chunks' INSERTs
\* in order, then the DELETE
RECURSIVE tx_view(_, _, _, _, _)
tx_view(table, store_id, mods, now, n) ==
    IF n = 0 THEN table
    ELSE IF n <= NumChunks(mods)
    THEN upsert_chunk(tx_view(table, store_id, mods, now, n - 1),
                      Chunk(mods, n), now)
    ELSE prune(tx_view(table, store_id, mods, now, NumChunks(mods)),
               store_id, mods, now)

\* the committed table after tx.commit() succeeded: the transaction's view
commit(table, view) == view

\* a variant of rollback: the statements were run outside the transaction
rollback_keeps_view(table, view) == view

\* the committed table after the Transaction was dropped without commit
rollback(table, view) == table

\* SELECT COUNT(*) FROM normalized_mods
count_mods(table) == Cardinality(table)

(***************************************************************************)
(* scrape_and_persist_all_stores: locals and result.                       *)
(***************************************************************************)
InitJob ==
    [next |-> 1, in_flight |-> {},
     stores_succeeded |-> 0, stores_failed |-> 0, mods_upserted |-> 0,
     outcome |-> [s \in StoreIds |-> "pending"]]

NoTx ==
    [store_id |-> "", mods |-> <<>>, now |-> 0, before |-> {},
     partial |-> FALSE]

NoRet == [ok |-> TRUE, val |-> <<>>, err |-> "none"]

ScrapeStats(total, succeeded, failed, upserted) ==
    [stores_total |-> total, stores_succeeded |-> succeeded,
     stores_failed |-> failed, mods_upserted |-> upserted]

\* a variant of job_result: any failed store fails the job
job_result_any_failed(j) ==
    IF j.stores_failed > 0
    THEN Err("Upstream")
    ELSE Ok(ScrapeStats(Len(Stores), j.stores_succeeded, j.stores_failed,
                        j.mods_upserted))

\* lines 376-387: the value the job returns once every store has resolved
job_result(j) ==
    IF j.stores_succeeded = 0 /\ j.stores_failed > 0
    THEN Err("Upstream")
    ELSE Ok(ScrapeStats(Len(Stores), j.stores_succeeded, j.stores_failed,
                        j.mods_upserted))

Max(a, b) == IF a > b THEN a ELSE b

\* a variant of fill: every store is dispatched at once
fill_every_store(j, limit) ==
    [j EXCEPT !.in_flight = @ \cup {Stores[i] : i \in j.next..Len(Stores)},
              !.next = Len(Stores) + 1]

\* buffer_unordered(store_concurrency.max(1)), at each poll of jobs.next():
\* the queue of in-flight store futures is filled, in registry order,
\* before a completion is taken
RECURSIVE fill(_, _)
fill(j, limit) ==
    IF j.next <= Len(Stores) /\ Cardinality(j.in_flight) < Max(limit, 1)
    THEN fill([j EXCEPT !.in_flight = @ \cup {Stores[j.next]},
                        !.next = @ + 1], limit)
    ELSE j

(***************************************************************************)
(* scrape_lock: tokio::sync::Mutex, which grants the lock in FIFO order.   *)
(***************************************************************************)
\* a variant of can_acquire: the lock is granted while a guard is alive
can_acquire_unguarded(h, queue, p) == queue # <<>> /\ Head(queue) = p

\* lock().await returns for the task at the head of the queue when no
\* guard is alive
can_acquire(h, queue, p) == h = NoProc /\ queue # <<>> /\ Head(queue) = p

\* a variant of drop_guard: the lock is released on the Ok path only
drop_guard_on_ok(h, result) == IF result.ok THEN NoProc ELSE h

\* the guard `_guard` of run_scrape_job is dropped when the function
\* returns `result`
drop_guard(h, result) == NoProc

\* a variant of database_error: the failure is reported as an upstream one
database_error_as_upstream(message) == Err("Upstream")

\* the map_err closures of upsert_store_mods: AppError::Database(message)
database_error(message) == Err("Database")

\* a variant of count_store: mods_upserted counts stores, not records
count_store_as_one(j, store_id, mods) ==
    [j EXCEPT !.stores_succeeded = @ + 1,
              !.mods_upserted = @ + 1,
              !.outcome[store_id] = "persisted"]

\* lines 364-367: the counters after a store's batch was persisted
count_store(j, store_id, mods) ==
    [j EXCEPT !.stores_succeeded = @ + 1,
              !.mods_upserted = @ + Len(mods),
              !.outcome[store_id] = "persisted"]

\* a variant of count_failure: the failed store is counted as succeeded
count_failure_as_success(j, store_id) ==
    [j EXCEPT !.in_flight = @ \ {store_id},
              !.outcome[store_id] = "fetch_failed",
              !.stores_succeeded = @ + 1]

\* lines 369-372: the counters after a store's fetch_store_mods returned Err
count_failure(j, store_id) ==
    [j EXCEPT !.in_flight = @ \ {store_id},
              !.outcome[store_id] = "fetch_failed",
              !.stores_failed = @ + 1]

\* no single function is being called
NoPaginator == [store |-> "", script |-> <<>>, pc |-> "none", result |-> NoRet]

NoFetcher ==
    [store |-> "", page |-> 0, max_429_retries |-> 0, retry_base_delay |-> 0,
     attempt |-> 0, requests |-> <<>>, responses |-> <<>>, delay |-> 0,
     pc |-> "none", result |-> NoRet]

NoFilter == [some |-> FALSE, val |-> <<>>]

NoMatcher ==
    [item |-> [title |-> <<>>, vendor |-> <<>>, product_type |-> <<>>,
               tags |-> <<>>],
     query |-> [make |-> NoFilter, model |-> NoFilter, engine |-> NoFilter],
     pc |-> "none", in_memory |-> FALSE, pushdown |-> FALSE]

NoPager ==
    [store |-> "", page |-> 0, collected |-> <<>>, seen_product_ids |-> {},
     requests |-> <<>>, responses |-> <<>>, pc |-> "none", result |-> NoRet]

NoBackoff == [retry_base_delay |-> 0, attempt |-> 0, delays |-> <<>>]

NoPricer == [variants |-> <<>>, pc |-> "none", price |-> <<>>]

NoCalls ==
    /\ paginator = NoPaginator
    /\ fetcher = NoFetcher
    /\ matcher = NoMatcher
    /\ pager = NoPager
    /\ backoff = NoBackoff
    /\ pricer = NoPricer

(***************************************************************************)
(* Initial state: the table is empty (a fresh database after init_db),     *)
(* no task runs.                                                           *)
(***************************************************************************)
Init ==
    /\ db = {}
    /\ clock = 0
    /\ holder = NoProc
    /\ waiters = <<>>
    /\ store_concurrency \in 1..2
    /\ pc = [p \in Procs |-> "idle"]
    /\ req = [p \in Procs |-> "none"]
    /\ job = [p \in Procs |-> InitJob]
    /\ tx = [p \in Procs |-> NoTx]
    /\ ret = [p \in Procs |-> NoRet]
    /\ committed = [s \in StoreIds |-> [known |-> FALSE, batch |-> {}]]
    /\ arrivals = 0
    /\ NoCalls

(***************************************************************************)
(* The callers of run_scrape_job.                                          *)
(***************************************************************************)
\* run_scrape_job, line 339: the task queues for the lock
call_run_scrape_job(p) ==
    /\ waiters' = Append(waiters, p)
    /\ pc' = [pc EXCEPT ![p] = "waiting"]

\* spawn_periodic_scraper: ticker.tick().await returned
tick(p) ==
    /\ p = Timer
    /\ pc[p] = "idle"
    /\ arrivals < MaxArrivals
    /\ arrivals' = arrivals + 1
    /\ req' = [req EXCEPT ![p] = "tick"]
    /\ call_run_scrape_job(p)
    /\ UNCHANGED <<db, clock, holder, store_concurrency, job, tx, ret,
                   committed>>
    /\ UNCHANGED call_vars

\* POST /internal/scrape
trigger_scrape(p) ==
    /\ p \in Handlers
    /\ pc[p] = "idle"
    /\ arrivals < MaxArrivals
    /\ arrivals' = arrivals + 1
    /\ req' = [req EXCEPT ![p] = "trigger_scrape"]
    /\ call_run_scrape_job(p)
    /\ UNCHANGED <<db, clock, holder, store_concurrency, job, tx, ret,
                   committed>>
    /\ UNCHANGED call_vars

\* the ModsQuery of a request: which of make, model and engine are given
QueryShapes == [make : BOOLEAN, model : BOOLEAN, engine : BOOLEAN]

\* a variant of no_filter_given: the query is not checked
no_filter_given_unchecked(shape) == FALSE

\* line 292
no_filter_given(shape) == ~shape.make /\ ~shape.model /\ ~shape.engine

\* GET /internal/mods: lines 292-296, the at-least-one-filter check; req
\* records whether the request came with a filter
get_mods(p) ==
    /\ p \in Handlers
    /\ pc[p] = "idle"
    /\ arrivals < MaxArrivals
    /\ arrivals' = arrivals + 1
    /\ \E shape \in QueryShapes :
          /\ req' = [req EXCEPT ![p] =
                        IF \E f \in DOMAIN shape : shape[f] THEN "query"
                        ELSE "query_unfiltered"]
          /\ IF no_filter_given(shape)
             THEN /\ pc' = [pc EXCEPT ![p] = "respond"]
                  /\ ret' = [ret EXCEPT ![p] = Err("BadRequest")]
             ELSE /\ pc' = [pc EXCEPT ![p] = "seed"]
                  /\ ret' = ret
    /\ UNCHANGED <<db, clock, holder, waiters, store_concurrency, job, tx,
                   committed>>
    /\ UNCHANGED call_vars

\* GET /internal/mods/:id
get_mod_by_id(p) ==
    /\ p \in Handlers
    /\ pc[p] = "idle"
    /\ arrivals < MaxArrivals
    /\ arrivals' = arrivals + 1
    /\ req' = [req EXCEPT ![p] = "lookup"]
    /\ pc' = [pc EXCEPT ![p] = "seed"]
    /\ UNCHANGED <<db, clock, holder, waiters, store_concurrency, job, tx,
                   ret, committed>>
    /\ UNCHANGED call_vars

\* a variant of needs_seed: the table is never taken for empty
needs_seed_never(count) == FALSE

\* line 327
needs_seed(count) == count = 0

\* ensure_seed_data: count_mods, then run_scrape_job when the table is empty
ensure_seed_data(p) ==
    /\ pc[p] = "seed"
    /\ \/ /\ needs_seed(count_mods(db))
          /\ call_run_scrape_job(p)
          /\ ret' = ret
       \/ /\ ~needs_seed(count_mods(db))
          /\ pc' = [pc EXCEPT ![p] = "query"]
          /\ UNCHANGED <<waiters, ret>>
       \/ \* the count query failed
          /\ pc' = [pc EXCEPT ![p] = "respond"]
          /\ ret' = [ret EXCEPT ![p] = Err("Database")]
          /\ UNCHANGED waiters
    /\ UNCHANGED <<db, clock, holder, store_concurrency, req, job, tx,
                   committed, arrivals>>
    /\ UNCHANGED call_vars

(***************************************************************************)
(* run_scrape_job and scrape_and_persist_all_stores, run by the task that  *)
(* holds the lock.  The store futures are polled only inside               *)
(* jobs.next().await (pc "poll"): while the task awaits upsert_store_mods  *)
(* no store future makes progress and none is pulled into the queue.       *)
(***************************************************************************)
\* run_scrape_job, line 339: lock().await returns the guard; the job starts
\* and its first poll of jobs.next() fills the queue
lock_acquired(p) ==
    /\ pc[p] = "waiting"
    /\ can_acquire(holder, waiters, p)
    /\ holder' = p
    /\ waiters' = SelectSeq(waiters, LAMBDA q : q # p)
    /\ pc' = [pc EXCEPT ![p] = "poll"]
    /\ job' = [job EXCEPT ![p] = fill(InitJob, store_concurrency)]
    /\ UNCHANGED <<db, clock, store_concurrency, req, tx, ret, committed,
                   arrivals>>
    /\ UNCHANGED call_vars

\* jobs.next() yields (store, result): fetch_store_mods of one in-flight
\* store has returned; lines 362-373 up to the call of upsert_store_mods
store_done(p) ==
    /\ pc[p] = "poll"
    /\ \E store \in job[p].in_flight :
       \E outcome \in FetchOutcomes[store] :
       LET result == outcome.result IN
          \/ /\ result.ok
             /\ job' = [job EXCEPT ![p].in_flight = @ \ {store},
                                   ![p].outcome[store] = "fetched"]
             /\ tx' = [tx EXCEPT ![p] =
                          [NoTx EXCEPT !.store_id = store, !.mods = result.val,
                                       !.before = db,
                                       !.partial = outcome.partial]]
             /\ pc' = [pc EXCEPT ![p] = "upsert"]
          \/ /\ ~result.ok
             /\ job' = [job EXCEPT ![p] =
                          fill(count_failure(@, store), store_concurrency)]
             /\ UNCHANGED <<tx, pc>>
    /\ UNCHANGED <<db, clock, holder, waiters, store_concurrency, req, ret,
                   committed, arrivals>>
    /\ UNCHANGED call_vars

\* upsert_store_mods, lines 1147-1236: the transaction.  NOW() is its start
\* time; `done` of its statements succeed; it commits when all of them and
\* the commit succeed, and is dropped (rolled back) when one fails
upsert_store_mods(p) ==
    /\ pc[p] = "upsert"
    /\ LET store_id == tx[p].store_id
           mods == tx[p].mods
           now == clock + 1
           statements == NumChunks(mods) + 1
       IN
       \/ \* every statement and the commit succeeded: Ok(())
          /\ db' = commit(db, tx_view(db, store_id, mods, now, statements))
          /\ clock' = now
          /\ committed' = [committed EXCEPT ![store_id] =
                              [known |-> TRUE, batch |-> Range(mods)]]
          /\ tx' = [tx EXCEPT ![p].now = now]
          /\ pc' = [pc EXCEPT ![p] = "upsert_ok"]
          /\ UNCHANGED <<job, ret>>
       \/ \* begin, a statement or the commit failed: `?` at line 365
          \* returns the DatabaseError from scrape_and_persist_all_stores
          \E done \in 0..statements :
             /\ db' = rollback(db, tx_view(db, store_id, mods, now, done))
             /\ job' = [job EXCEPT ![p].outcome[store_id] = "persist_failed"]
             /\ ret' = [ret EXCEPT ![p] =
                          database_error("failed to upsert products")]
             /\ pc' = [pc EXCEPT ![p] = "returned"]
             /\ UNCHANGED <<clock, tx, committed>>
    /\ UNCHANGED <<holder, waiters, store_concurrency, req, arrivals>>
    /\ UNCHANGED call_vars

\* lines 366-367, after upsert_store_mods returned Ok; the loop then polls
\* jobs.next() again
store_counted(p) ==
    /\ pc[p] = "upsert_ok"
    /\ job' = [job EXCEPT ![p] =
                 fill(count_store(@, tx[p].store_id, tx[p].mods),
                      store_concurrency)]
    /\ tx' = [tx EXCEPT ![p] = NoTx]
    /\ pc' = [pc EXCEPT ![p] = "poll"]
    /\ UNCHANGED <<db, clock, holder, waiters, store_concurrency, req, ret,
                   committed, arrivals>>
    /\ UNCHANGED call_vars

\* jobs.next() yields None: lines 376-387, the result of
\* scrape_and_persist_all_stores
job_end(p) ==
    /\ pc[p] = "poll"
    /\ job[p].in_flight = {}
    /\ ret' = [ret EXCEPT ![p] = job_result(job[p])]
    /\ pc' = [pc EXCEPT ![p] = "returned"]
    /\ UNCHANGED <<db, clock, holder, waiters, store_concurrency, req, job,
                   tx, committed, arrivals>>
    /\ UNCHANGED call_vars

\* run_scrape_job returns the result and drops the guard (line 341); its
\* caller goes on to its next await: the timer logs and awaits the next
\* tick, trigger_scrape answers with the result, ensure_seed_data returns
\* the error to its handler, which answers with it, or returns Ok
run_scrape_job_returns(p) ==
    /\ pc[p] = "returned"
    /\ holder' = drop_guard(holder, ret[p])
    /\ job' = [job EXCEPT ![p] = InitJob]
    /\ tx' = [tx EXCEPT ![p] = NoTx]
    /\ \/ /\ req[p] = "tick"
          /\ pc' = [pc EXCEPT ![p] = "idle"]
          /\ req' = [req EXCEPT ![p] = "none"]
          /\ ret' = [ret EXCEPT ![p] = NoRet]
       \/ /\ req[p] = "trigger_scrape" \/ ~ret[p].ok
          /\ req[p] # "tick"
          /\ pc' = [pc EXCEPT ![p] = "respond"]
          /\ UNCHANGED <<req, ret>>
       \/ /\ req[p] \in {"query", "lookup"}
          /\ ret[p].ok
          /\ pc' = [pc EXCEPT ![p] = "query"]
          /\ ret' = [ret EXCEPT ![p] = NoRet]
          /\ req' = req
    /\ UNCHANGED <<db, clock, waiters, store_concurrency, committed,
                   arrivals>>
    /\ UNCHANGED call_vars

\* a variant of order_by_updated_at_desc: no ORDER BY
order_by_nothing(rows) ==
    {list \in [1..Cardinality(rows) -> rows] :
        \A i, j \in DOMAIN list : list[i] = list[j] => i = j}

\* ORDER BY updated_at DESC, line 1087: the lists of the rows in which no
\* row comes before a row with a later updated_at
order_by_updated_at_desc(rows) ==
    {list \in [1..Cardinality(rows) -> rows] :
        /\ \A i, j \in DOMAIN list : list[i] = list[j] => i = j
        /\ \A i, j \in DOMAIN list :
               i < j => list[i].updated_at >= list[j].updated_at}

\* row_to_mod over the selected columns, which leave updated_at out
row_to_mod(row) ==
    [id |-> row.id, store_id |-> row.store_id, content |-> row.content]

\* query_mods_from_db / find_mod_by_id: the read of the committed table.
\* The WHERE clause of a filter query selects some of the rows
query(p) ==
    /\ pc[p] = "query"
    /\ \/ /\ req[p] = "query"
          /\ \E selected \in SUBSET db :
             \E list \in order_by_updated_at_desc(selected) :
                ret' = [ret EXCEPT ![p] =
                           Ok([i \in DOMAIN list |-> row_to_mod(list[i])])]
       \/ /\ req[p] = "lookup"
          /\ ret' = [ret EXCEPT ![p] = Ok(<<>>)]
       \/ /\ req[p] = "lookup"
          /\ ret' = [ret EXCEPT ![p] = Err("NotFound")]
       \/ ret' = [ret EXCEPT ![p] = Err("Database")]
    /\ pc' = [pc EXCEPT ![p] = "respond"]
    /\ UNCHANGED <<db, clock, holder, waiters, store_concurrency, req, job,
                   tx, committed, arrivals>>
    /\ UNCHANGED call_vars

\* the handler's response (the result of the query, or the error of one of
\* its steps) is sent
respond(p) ==
    /\ pc[p] = "respond"
    /\ pc' = [pc EXCEPT ![p] = "idle"]
    /\ req' = [req EXCEPT ![p] = "none"]
    /\ ret' = [ret EXCEPT ![p] = NoRet]
    /\ UNCHANGED <<db, clock, holder, waiters, store_concurrency, job, tx,
                   committed, arrivals>>
    /\ UNCHANGED call_vars

Next ==
    \E p \in Procs :
        \/ tick(p)
        \/ trigger_scrape(p)
        \/ get_mods(p)
        \/ get_mod_by_id(p)
        \/ ensure_seed_data(p)
        \/ lock_acquired(p)
        \/ store_done(p)
        \/ upsert_store_mods(p)
        \/ store_counted(p)
        \/ job_end(p)
        \/ run_scrape_job_returns(p)
        \/ query(p)
        \/ respond(p)

Spec == Init /\ [][Next]_vars

(***************************************************************************)
(* The tasks are scheduled by the tokio runtime: a task that can take a    *)
(* step is eventually polled, and every fetch, statement and lock grant    *)
(* returns.  Ticks and requests are the environment's and need not come.   *)
(***************************************************************************)
Progress(p) ==
    \/ ensure_seed_data(p)
    \/ lock_acquired(p)
    \/ store_done(p)
    \/ upsert_store_mods(p)
    \/ store_counted(p)
    \/ job_end(p)
    \/ run_scrape_job_returns(p)
    \/ query(p)
    \/ respond(p)

\* the fair behaviours, for the configuration that fetches one store at a
\* time
FairInit == Init /\ store_concurrency = 1

FairSpec ==
    FairInit /\ [][Next]_vars /\ WF_vars(\E p \in Procs : Progress(p))

(***************************************************************************)
(* Properties.                                                             *)
(***************************************************************************)
\* the task is inside run_scrape_job with the lock acquired
Running(p) == pc[p] \in {"poll", "upsert", "upsert_ok", "returned"}

\* the rows of one store in a table
StoreRows(table, store_id) == {r \in table : r.store_id = store_id}

\* rows without their freshness timestamp: the NormalizedMod records
Mods(rows) ==
    {[id |-> r.id, store_id |-> r.store_id, content |-> r.content] : r \in rows}

\* C1: whatever the interleaving of the timer, trigger_scrape and the
\* bootstrap of get_mods / get_mod_by_id, at most one task is inside a
\* scrape job at any instant, and that task holds the lock; a task that
\* arrived meanwhile is queued and has not started
C1_SingleFlight ==
    /\ \A p, q \in Procs : Running(p) /\ Running(q) => p = q
    /\ \A p \in Procs : Running(p) => holder = p
    /\ \A p \in Procs : pc[p] = "waiting" => job[p] = InitJob

\* C1 witness: a job is in the middle of its stores while a second trigger
\* of another kind waits for the lock
C1_Witness ==
    \E p, q \in Procs :
        /\ pc[p] \in {"upsert", "upsert_ok"}
        /\ pc[q] = "waiting"
        /\ req[p] # req[q]

\* C2: the lock is released on every exit path of a job (success, the
\* all-stores-failed error, a persistence error), so that every trigger
\* waiting for the lock eventually holds it
C2_WaitersAcquire ==
    \A p \in Procs : (pc[p] = "waiting") ~> (holder = p)

\* C2 witness: a job has ended with a persistence error while another
\* trigger was queued, and that trigger now holds the lock
C2_Witness ==
    \E p, q \in Procs :
        /\ pc[p] = "respond"
        /\ req[p] = "trigger_scrape"
        /\ ~ret[p].ok
        /\ ret[p].err = "Database"
        /\ holder = q
        /\ Running(q)

\* C3: once a persist of store S has committed, the rows with store_id S
\* are exactly the records of the batch committed last for S, one row per
\* record, with that batch's content
C3_RowsAreLatestBatch ==
    \A s \in StoreIds :
        committed[s].known =>
            /\ Mods(StoreRows(db, s)) = committed[s].batch
            /\ Cardinality(StoreRows(db, s)) = Cardinality(committed[s].batch)

\* C3 witness: a store held the N = 2 rows of a batch B1, and the batch B1
\* minus one record has just been committed for it: N - 1 rows are left
C3_Witness ==
    \E p \in Procs :
        LET s == tx[p].store_id
            b1 == Mods(StoreRows(tx[p].before, s))
            b2 == Range(tx[p].mods)
        IN
        /\ pc[p] = "upsert_ok"
        /\ Cardinality(b1) = 2
        /\ b2 \subseteq b1
        /\ Cardinality(b2) = 1
        /\ Cardinality(StoreRows(db, s)) = 1

\* C4, as claimed: a failure in one store (a fetch failure or a persistence
\* failure) never blocks another store's write: when a job returns, every
\* store other than one whose own transaction failed has been resolved,
\* with its batch persisted or its fetch failed
C4_NoStoreBlocked ==
    \A p \in Procs :
        pc[p] = "returned" =>
            \A s \in StoreIds :
                job[p].outcome[s] \in
                    {"persisted", "fetch_failed", "persist_failed"}

\* C4 witness: a job has returned the persistence error of one store while
\* another store, whose upstream can answer, was not fetched to its end and
\* has nothing written
C4_Witness ==
    \E p \in Procs :
        /\ pc[p] = "returned"
        /\ ret[p].err = "Database"
        /\ \E s \in StoreIds :
               /\ job[p].outcome[s] = "pending"
               /\ ~committed[s].known
               /\ \E result \in FetchResults[s] : result.ok /\ result.val # <<>>

\* C5: without a persistence error, the job returns the upstream failure
\* exactly when no store succeeded and at least one failed, and returns the
\* stats otherwise; a job whose stores all failed to fetch returns failure
C5_JobFailsIffAllFailed ==
    \A p \in Procs :
        (pc[p] = "returned"
            /\ \A s \in StoreIds : job[p].outcome[s] # "persist_failed") =>
            LET succeeded == {s \in StoreIds : job[p].outcome[s] = "persisted"}
                failed == {s \in StoreIds : job[p].outcome[s] = "fetch_failed"}
            IN
            /\ succeeded \cup failed = StoreIds
            /\ ~ret[p].ok <=> (succeeded = {} /\ failed # {})
            /\ ~ret[p].ok => ret[p].err = "Upstream"
            /\ ret[p].ok =>
                   ret[p].val.stores_succeeded = Cardinality(succeeded)

\* C5 witness: a job in which one store succeeded and one failed has
\* returned its stats
C5_Witness ==
    \E p \in Procs :
        /\ pc[p] = "returned"
        /\ ret[p].ok
        /\ \E s \in StoreIds : job[p].outcome[s] = "persisted"
        /\ \E s \in StoreIds : job[p].outcome[s] = "fetch_failed"

\* C6: when a step of a store's transaction failed, the rows of the table
\* are what they were before the transaction began: nothing partially
\* upserted or pruned is committed
C6_FailedTxLeavesRows ==
    \A p \in Procs :
        \A s \in StoreIds :
            job[p].outcome[s] = "persist_failed" =>
                /\ tx[p].store_id = s
                /\ StoreRows(db, s) = StoreRows(tx[p].before, s)
                /\ db = tx[p].before

\* C6 witness: the transaction that failed was to replace a store's two
\* rows by a batch with other content and fewer records
C6_Witness ==
    \E p \in Procs :
        LET s == tx[p].store_id IN
        /\ pc[p] = "returned"
        /\ ~ret[p].ok
        /\ ret[p].err = "Database"
        /\ Cardinality(StoreRows(tx[p].before, s)) = 2
        /\ Len(tx[p].mods) = 1
        /\ Range(tx[p].mods) \cap Mods(StoreRows(tx[p].before, s)) = {}

\* C7: when a store's transaction fails, the job returns a DatabaseError
\* and the batches the job committed before for other stores stay
\* persisted
C7_DatabaseErrorKeepsEarlierWrites ==
    \A p \in Procs :
        (\E s \in StoreIds : job[p].outcome[s] = "persist_failed") =>
            /\ pc[p] = "returned"
            /\ ~ret[p].ok
            /\ ret[p].err = "Database"
            /\ \A s \in StoreIds :
                   job[p].outcome[s] = "persisted" =>
                       /\ committed[s].known
                       /\ Mods(StoreRows(db, s)) = committed[s].batch

\* C7 witness: the job persisted a non-empty batch for one store and then
\* failed in the transaction of another
C7_Witness ==
    \E p \in Procs :
        /\ pc[p] = "returned"
        /\ ret[p].err = "Database"
        /\ \E s \in StoreIds :
               /\ job[p].outcome[s] = "persisted"
               /\ StoreRows(db, s) # {}
               /\ \E r \in StoreRows(db, s) :
                      \A old \in tx[p].before : old.updated_at <= r.updated_at

RECURSIVE batch_sizes(_, _)
batch_sizes(j, i) ==
    IF i = 0 THEN 0
    ELSE batch_sizes(j, i - 1)
         + (IF j.outcome[Stores[i]] = "persisted"
            THEN Cardinality(committed[Stores[i]].batch)
            ELSE 0)

\* C8: the stats a job returns have stores_total equal to the number of
\* configured stores, stores_succeeded + stores_failed = stores_total with
\* every store resolved once, and mods_upserted equal to the sum of the
\* sizes of the batches of the stores that succeeded
C8_StatsConsistent ==
    \A p \in Procs :
        (pc[p] = "returned" /\ ret[p].ok) =>
            LET stats == ret[p].val
                succeeded == {s \in StoreIds : job[p].outcome[s] = "persisted"}
                failed == {s \in StoreIds : job[p].outcome[s] = "fetch_failed"}
            IN
            /\ stats.stores_total = Len(Stores)
            /\ stats.stores_succeeded + stats.stores_failed = stats.stores_total
            /\ stats.stores_succeeded = Cardinality(succeeded)
            /\ stats.stores_failed = Cardinality(failed)
            /\ stats.mods_upserted = batch_sizes(job[p], Len(Stores))

\* C8 witness: the stats of a job in which both stores succeeded, one of
\* them with a batch of two records
C8_Witness ==
    \E p \in Procs :
        /\ pc[p] = "returned"
        /\ ret[p].ok
        /\ ret[p].val.stores_succeeded = 2
        /\ ret[p].val.mods_upserted = 3

\* C9: a committed persist of an empty batch leaves no row of the store
C9_EmptyBatchRemovesAll ==
    \A p \in Procs :
        (pc[p] = "upsert_ok" /\ tx[p].mods = <<>>) =>
            StoreRows(db, tx[p].store_id) = {}

\* C9 witness: the empty batch was committed for a store that held two
\* rows, while the other store's row stays
C9_Witness ==
    \E p \in Procs :
        /\ pc[p] = "upsert_ok"
        /\ tx[p].mods = <<>>
        /\ Cardinality(StoreRows(tx[p].before, tx[p].store_id)) = 2
        /\ db # {}

\* C10: a committed persist of the batch a store already holds leaves the
\* same rows with the same content, none lost or duplicated, each carrying
\* the timestamp of this transaction, which is later than the one it had
C10_IdempotentUpsert ==
    \A p \in Procs :
        LET s == tx[p].store_id
            old == StoreRows(tx[p].before, s)
            new == StoreRows(db, s)
        IN
        (pc[p] = "upsert_ok" /\ tx[p].mods # <<>>
            /\ Range(tx[p].mods) = Mods(old)) =>
            /\ Mods(new) = Mods(old)
            /\ Cardinality(new) = Cardinality(old)
            /\ Cardinality(new) = Len(tx[p].mods)
            /\ \A r \in new : r.updated_at = tx[p].now
            /\ \A r \in old : r.updated_at < tx[p].now
            /\ db \ new = tx[p].before \ old

\* C10 witness: the batch of two records a store holds was committed again
C10_Witness ==
    \E p \in Procs :
        LET old == StoreRows(tx[p].before, tx[p].store_id) IN
        /\ pc[p] = "upsert_ok"
        /\ Len(tx[p].mods) = 2
        /\ Range(tx[p].mods) = Mods(old)
        /\ Cardinality(old) = 2

(***************************************************************************)
(* fetch_store_mods as a function of the upstream's answers: one call, for *)
(* any store and any answers to the page requests.                         *)
(***************************************************************************)
\* the service at rest, while a single function is called
ServiceIdle ==
    /\ db = {}
    /\ clock = 0
    /\ holder = NoProc
    /\ waiters = <<>>
    /\ store_concurrency = 1
    /\ pc = [p \in Procs |-> "idle"]
    /\ req = [p \in Procs |-> "none"]
    /\ job = [p \in Procs |-> InitJob]
    /\ tx = [p \in Procs |-> NoTx]
    /\ ret = [p \in Procs |-> NoRet]
    /\ committed = [s \in StoreIds |-> [known |-> FALSE, batch |-> {}]]
    /\ arrivals = 0

PaginatorInit ==
    /\ ServiceIdle
    /\ fetcher = NoFetcher
    /\ matcher = NoMatcher
    /\ pager = NoPager
    /\ backoff = NoBackoff
    /\ pricer = NoPricer
    /\ \E store \in StoreIds :
       \E script \in PageScripts(store) :
          paginator = [store |-> store, script |-> script, pc |-> "call",
                       result |-> NoRet]

\* fetch_store_mods(client, scrape_cfg, store).await returns
paginate ==
    /\ paginator.pc = "call"
    /\ paginator' =
           [paginator EXCEPT
               !.result = fetch_store_mods(paginator.script, paginator.store),
               !.pc = "returned"]
    /\ UNCHANGED <<service_vars, fetcher, matcher, pager, backoff, pricer>>

PaginatorNext == paginate

PaginatorSpec == PaginatorInit /\ [][PaginatorNext]_vars

\* the upstream ids on a page of the script
PageIds(script, page) ==
    {script[page].val[i].id : i \in DOMAIN script[page].val}

\* C11: whatever the pages the upstream answers, with ids repeated within a
\* page or across pages, the list fetch_store_mods returns has each
\* upstream product id at most once
C11_NoDuplicateIds ==
    (paginator.pc = "returned" /\ paginator.result.ok) =>
        LET mods == paginator.result.val IN
        \A i, j \in DOMAIN mods : mods[i].id = mods[j].id => i = j

\* C11 witness: page 1 lists an id twice, page 2 lists an id of page 1 and
\* a new one, and two records were returned
C11_Witness ==
    /\ paginator.pc = "returned"
    /\ paginator.result.ok
    /\ paginator.script[1].ok
    /\ paginator.script[2].ok
    /\ Len(paginator.script[1].val) = 2
    /\ paginator.script[1].val[1].id = paginator.script[1].val[2].id
    /\ PageIds(paginator.script, 2) \cap PageIds(paginator.script, 1) # {}
    /\ PageIds(paginator.script, 2) \ PageIds(paginator.script, 1) # {}
    /\ Len(paginator.result.val) = 2

\* the records of the first occurrence of each id among the first n
\* products of a list, in the list's order
RECURSIVE first_by_id(_, _, _)
first_by_id(products, n, store) ==
    IF n = 0 THEN <<>>
    ELSE IF \E j \in 1..(n - 1) : products[j].id = products[n].id
    THEN first_by_id(products, n - 1, store)
    ELSE Append(first_by_id(products, n - 1, store),
                normalize_product(products[n], store))

\* the products of pages 1..k of a script whose pages 1..k were fetched
RECURSIVE pages_upto(_, _)
pages_upto(script, k) ==
    IF k = 0 THEN <<>> ELSE pages_upto(script, k - 1) \o script[k].val

\* page k is requested: every page before it was fetched, was full and
\* brought a new id
page_requested(script, k) ==
    /\ k <= max_pages
    /\ \A j \in 1..(k - 1) :
           /\ script[j].ok
           /\ Len(script[j].val) = page_limit
           /\ \E i \in DOMAIN script[j].val :
                  \A h \in 1..(j - 1) : script[j].val[i].id \notin PageIds(script, h)

\* C12: when the fetch of page 1 fails the paginator returns that failure
\* and no record; when the fetch of a later page fails it returns Ok with
\* every record collected from the pages before
C12_PageFailure ==
    paginator.pc = "returned" =>
        \A k \in 1..max_pages :
            (page_requested(paginator.script, k) /\ ~paginator.script[k].ok) =>
                IF k = 1
                THEN /\ ~paginator.result.ok
                     /\ paginator.result.err = paginator.script[1].err
                     /\ paginator.result.val = <<>>
                ELSE /\ paginator.result.ok
                     /\ paginator.result.val =
                            LET before == pages_upto(paginator.script, k - 1)
                            IN first_by_id(before, Len(before), paginator.store)

\* C12 witness: page 1 was full, the fetch of page 2 failed and the
\* records of page 1 were returned
C12_Witness ==
    /\ paginator.pc = "returned"
    /\ paginator.script[1].ok
    /\ Len(paginator.script[1].val) = page_limit
    /\ ~paginator.script[2].ok
    /\ paginator.result.ok
    /\ Len(paginator.result.val) = 2

(***************************************************************************)
(* fetch_page_payload and retry_delay_for_429: one call, for any store,    *)
(* page and configuration, against an upstream that answers each request   *)
(* as it likes.  Durations are in milliseconds.                            *)
(***************************************************************************)
Digits == <<"0", "1", "2", "3", "4", "5", "6", "7", "8", "9">>

is_digit(ch) == \E d \in DOMAIN Digits : Digits[d] = ch

digit_value(ch) == (CHOOSE d \in DOMAIN Digits : Digits[d] = ch) - 1

None == [some |-> FALSE, val |-> 0]
Some(v) == [some |-> TRUE, val |-> v]

\* the number written by the first n characters of a string of digits
RECURSIVE decimal(_, _)
decimal(raw, n) ==
    IF n = 0 THEN 0 ELSE decimal(raw, n - 1) * 10 + digit_value(raw[n])

\* raw.parse::<u64>().ok(): an optional "+" and then one or more digits
parse_u64(raw) ==
    LET digits == IF raw # <<>> /\ Head(raw) = "+" THEN Tail(raw) ELSE raw IN
    IF digits # <<>> /\ \A i \in DOMAIN digits : is_digit(digits[i])
    THEN Some(decimal(digits, Len(digits)))
    ELSE None

clamp(v, lo, hi) == IF v < lo THEN lo ELSE IF v > hi THEN hi ELSE v

\* u64: a number is the sequence of its binary digits, lowest first, so
\* that products beyond the integers of the model checker keep their value
U64_BITS == 64

RECURSIVE bits(_)
bits(n) == IF n = 0 THEN <<>> ELSE <<n % 2>> \o bits(n \div 2)

\* u64::MAX
u64_max == [i \in 1..U64_BITS |-> 1]

\* the number is below 2^width
fits(x, width) == \A i \in DOMAIN x : x[i] = 1 => i <= width

RECURSIVE add(_, _, _)
add(a, b, carry) ==
    IF a = <<>> /\ b = <<>>
    THEN IF carry = 0 THEN <<>> ELSE <<carry>>
    ELSE LET x == IF a = <<>> THEN 0 ELSE Head(a)
             y == IF b = <<>> THEN 0 ELSE Head(b)
             sum == x + y + carry
         IN <<sum % 2>> \o add(IF a = <<>> THEN a ELSE Tail(a),
                               IF b = <<>> THEN b ELSE Tail(b), sum \div 2)

\* the exact product
RECURSIVE mul(_, _)
mul(a, b) ==
    IF b = <<>> THEN <<>>
    ELSE LET rest == <<0>> \o mul(a, Tail(b)) IN
         IF Head(b) = 1 THEN add(a, rest, 0) ELSE rest

\* 2_u64.saturating_pow(attempt as u32)
saturating_pow2(attempt) ==
    IF attempt >= U64_BITS THEN u64_max
    ELSE [i \in 1..(attempt + 1) |-> IF i = attempt + 1 THEN 1 ELSE 0]

\* u64::saturating_mul
saturating_mul(a, b) ==
    LET product == mul(a, b) IN
    IF fits(product, U64_BITS) THEN product ELSE u64_max

\* the value of a number below 2^31
RECURSIVE to_int(_)
to_int(x) == IF x = <<>> THEN 0 ELSE Head(x) + 2 * to_int(Tail(x))

\* a variant of clamp_u64: no lower bound
clamp_u64_no_floor(x, lo, hi) ==
    IF fits(x, 31) THEN clamp(to_int(x), 0, hi) ELSE hi

\* u64::clamp(lo, hi), for bounds below 2^31
clamp_u64(x, lo, hi) ==
    IF fits(x, 31) THEN clamp(to_int(x), lo, hi) ELSE hi

\* the Retry-After header of a response: absent, or its value
NoHeader == [present |-> FALSE, raw |-> <<>>]
RetryAfterValues ==
    {<<"0">>, <<"1">>, <<"5">>, <<"1", "2", "0">>, <<"1", "2", "1">>,
     <<"+", "5">>, <<"W", "e", "d">>, <<>>}
Headers == {NoHeader} \cup {[present |-> TRUE, raw |-> raw] : raw \in RetryAfterValues}

\* a variant of retry_delay_for_429: the header is not read
retry_delay_for_429_backoff_only(retry_after, retry_base_delay, attempt) ==
    clamp_u64(saturating_mul(bits(retry_base_delay), saturating_pow2(attempt)),
              250, 30000)

\* retry_delay_for_429, lines 516-532
retry_delay_for_429(retry_after, retry_base_delay, attempt) ==
    LET seconds == IF retry_after.present THEN parse_u64(retry_after.raw)
                   ELSE None
    IN
    IF seconds.some
    THEN 1000 * clamp(seconds.val, 1, 120)
    ELSE LET exp == saturating_pow2(attempt)
             millis == clamp_u64(saturating_mul(bits(retry_base_delay), exp),
                                 250, 30000)
         IN millis

\* a variant of retries_exhausted: one more retry is made
retries_exhausted_late(attempt, max_429_retries) == attempt > max_429_retries

\* line 480
retries_exhausted(attempt, max_429_retries) == attempt >= max_429_retries

\* what the upstream can answer to one request: no answer (send fails), 429
\* with or without a Retry-After, an error status, or 200 with a body that
\* decodes to a list of products or does not decode
Responses(store) ==
    {[status |-> "send_error", retry_after |-> NoHeader, body |-> Err("Upstream")],
     [status |-> "500", retry_after |-> NoHeader, body |-> Err("Upstream")],
     [status |-> "200", retry_after |-> NoHeader, body |-> Err("Upstream")]}
    \cup {[status |-> "429", retry_after |-> h, body |-> Err("Upstream")]
          : h \in Headers}
    \cup {[status |-> "200", retry_after |-> NoHeader, body |-> Ok(products)]
          : products \in SeqsUpTo(Catalog[store], page_limit)}

BaseDelays == {100, 1000, 60000}

\* a variant of is_too_many_requests: a server error is retried as well
is_too_many_requests_or_server_error(status) == status \in {"429", "500"}

\* line 479: response.status() == StatusCode::TOO_MANY_REQUESTS
is_too_many_requests(status) == status = "429"

FetcherInit ==
    /\ ServiceIdle
    /\ paginator = NoPaginator
    /\ matcher = NoMatcher
    /\ pager = NoPager
    /\ backoff = NoBackoff
    /\ pricer = NoPricer
    /\ \E store \in StoreIds :
       \E page \in 1..max_pages :
       \E max_429_retries \in 0..MaxRetries :
       \E retry_base_delay \in BaseDelays :
          fetcher = [NoFetcher EXCEPT !.store = store, !.page = page,
                                      !.max_429_retries = max_429_retries,
                                      !.retry_base_delay = retry_base_delay,
                                      !.pc = "send"]

\* the request of lines 474-478 is answered by `response`: lines 479-512,
\* up to the return or the sleep
answered(response) ==
    LET sent == [fetcher EXCEPT
                    !.requests = Append(@, fetcher.page),
                    !.responses = Append(@, [status |-> response.status,
                                             retry_after |-> response.retry_after])]
    IN
    IF is_too_many_requests(response.status)
    THEN IF retries_exhausted(fetcher.attempt, fetcher.max_429_retries)
         THEN fetcher' = [sent EXCEPT !.result = Err("Upstream"),
                                      !.pc = "returned"]
         ELSE fetcher' = [sent EXCEPT
                             !.delay = retry_delay_for_429(
                                           response.retry_after,
                                           fetcher.retry_base_delay,
                                           fetcher.attempt),
                             !.pc = "sleep"]
    ELSE fetcher' = [sent EXCEPT !.result = response.body,
                                 !.pc = "returned"]

\* one iteration of the loop of fetch_page_payload, lines 473-512, up to
\* its return or its sleep
send ==
    /\ fetcher.pc = "send"
    /\ \E response \in Responses(fetcher.store) : answered(response)
    /\ UNCHANGED <<service_vars, paginator, matcher, pager, backoff, pricer>>

\* sleep(delay).await returns: lines 495-497
slept ==
    /\ fetcher.pc = "sleep"
    /\ fetcher' = [fetcher EXCEPT !.attempt = @ + 1, !.pc = "send"]
    /\ UNCHANGED <<service_vars, paginator, matcher, pager, backoff, pricer>>

FetcherNext == send \/ slept

FetcherSpec == FetcherInit /\ [][FetcherNext]_vars

\* C13: for a page whose every response is 429, fetch_page_payload makes
\* max_429_retries retries, max_429_retries + 1 requests in all and never
\* more, and then fails with an upstream error; when the page is page 1
\* the store fails and contributes no record
C13_RetriesExhausted ==
    /\ Len(fetcher.requests) <= fetcher.max_429_retries + 1
    /\ (fetcher.pc = "returned"
        /\ \A i \in DOMAIN fetcher.responses :
               fetcher.responses[i].status = "429") =>
           /\ Len(fetcher.requests) = fetcher.max_429_retries + 1
           /\ fetcher.attempt = fetcher.max_429_retries
           /\ fetcher.result = Err("Upstream")
           /\ fetcher.page = 1 =>
                  \A script \in PageScripts(fetcher.store) :
                      script[1] = fetcher.result =>
                          LET mods == fetch_store_mods(script, fetcher.store)
                          IN ~mods.ok /\ mods.val = <<>>

\* C13 witness: with two retries allowed, page 1 was requested three times,
\* answered 429 each time, and the call has returned
C13_Witness ==
    /\ fetcher.pc = "returned"
    /\ fetcher.page = 1
    /\ fetcher.max_429_retries = 2
    /\ Len(fetcher.requests) = 3
    /\ \A i \in DOMAIN fetcher.responses : fetcher.responses[i].status = "429"

\* C14: after a 429 whose Retry-After parses as s seconds the fetcher
\* sleeps min(max(s, 1), 120) seconds, whatever the attempt and the base
\* delay, and requests the same page again only after the sleep
C14_RetryAfterHonored ==
    /\ fetcher.pc = "sleep" =>
           LET last == fetcher.responses[Len(fetcher.responses)]
               seconds == parse_u64(last.retry_after.raw)
           IN
           /\ last.status = "429"
           /\ (last.retry_after.present /\ seconds.some) =>
                  fetcher.delay =
                      1000 * (IF seconds.val < 1 THEN 1
                              ELSE IF seconds.val > 120 THEN 120
                              ELSE seconds.val)
    /\ \A i \in DOMAIN fetcher.requests : fetcher.requests[i] = fetcher.page
    /\ Len(fetcher.requests) =
           IF fetcher.pc = "send" THEN fetcher.attempt ELSE fetcher.attempt + 1

\* C14 witness: the second request got a 429 with Retry-After: 5 and the
\* fetcher sleeps 5 seconds, where its backoff would have been 30 seconds
C14_Witness ==
    /\ fetcher.pc = "sleep"
    /\ fetcher.attempt = 1
    /\ fetcher.retry_base_delay = 60000
    /\ fetcher.responses[2].retry_after = [present |-> TRUE, raw |-> <<"5">>]
    /\ fetcher.delay = 5000

(***************************************************************************)
(* The filter engine: text is a sequence of one-character strings.         *)
(***************************************************************************)
Uppers ==
    <<"A", "B", "C", "D", "E", "F", "G", "H", "I", "J", "K", "L", "M",
      "N", "O", "P", "Q", "R", "S", "T", "U", "V", "W", "X", "Y", "Z">>
Lowers ==
    <<"a", "b", "c", "d", "e", "f", "g", "h", "i", "j", "k", "l", "m",
      "n", "o", "p", "q", "r", "s", "t", "u", "v", "w", "x", "y", "z">>

is_ascii_alphabetic(ch) ==
    \E i \in DOMAIN Uppers : Uppers[i] = ch \/ Lowers[i] = ch

is_ascii_alphanumeric(ch) == is_ascii_alphabetic(ch) \/ is_digit(ch)

to_ascii_lowercase(ch) ==
    IF \E i \in DOMAIN Uppers : Uppers[i] = ch
    THEN Lowers[CHOOSE i \in DOMAIN Uppers : Uppers[i] = ch]
    ELSE ch

\* str::split_whitespace, from character i on, with the token being read
RECURSIVE split_from(_, _, _)
split_from(text, i, token) ==
    IF i > Len(text)
    THEN IF token = <<>> THEN <<>> ELSE <<token>>
    ELSE IF text[i] = " "
    THEN IF token = <<>> THEN split_from(text, i + 1, <<>>)
         ELSE <<token>> \o split_from(text, i + 1, <<>>)
    ELSE split_from(text, i + 1, Append(token, text[i]))

split_whitespace(text) == split_from(text, 1, <<>>)

\* [&str]::join(" ")
RECURSIVE join(_)
join(parts) ==
    IF parts = <<>> THEN <<>>
    ELSE IF Len(parts) = 1 THEN parts[1]
    ELSE parts[1] \o <<" ">> \o join(Tail(parts))

\* str::replace(' ', "")
remove_spaces(text) == SelectSeq(text, LAMBDA ch : ch # " ")

\* str::contains
contains(haystack, needle) ==
    /\ Len(needle) <= Len(haystack)
    /\ \E i \in 0..(Len(haystack) - Len(needle)) :
           SubSeq(haystack, i + 1, i + Len(needle)) = needle

eq_ignore_ascii_case(a, b) ==
    /\ Len(a) = Len(b)
    /\ \A i \in DOMAIN a : to_ascii_lowercase(a[i]) = to_ascii_lowercase(b[i])

\* normalize_match_text, lines 714-728
normalize_match_text(value) ==
    join(split_whitespace(
             [i \in DOMAIN value |->
                 IF is_ascii_alphanumeric(value[i])
                 THEN to_ascii_lowercase(value[i])
                 ELSE " "]))

\* the fields of a record that take part in matching, normalized, the empty
\* ones left out: build_search_haystacks and the parts of build_search_text
normalized_parts(item) ==
    LET sources == <<item.title, item.vendor, item.product_type>> \o item.tags
        normalized == [i \in DOMAIN sources |-> normalize_match_text(sources[i])]
    IN SelectSeq(normalized, LAMBDA part : part # <<>>)

build_search_haystacks(item) == normalized_parts(item)

build_search_text(item) == join(normalized_parts(item))

\* the filter of a query that applies: Some, and not empty once normalized
\* a variant of applied: a filter that normalizes to "" is applied
applied_when_empty(filter) ==
    IF filter.some
    THEN [some |-> TRUE, val |-> normalize_match_text(filter.val)]
    ELSE NoFilter

applied(filter) ==
    IF filter.some /\ normalize_match_text(filter.val) # <<>>
    THEN [some |-> TRUE, val |-> normalize_match_text(filter.val)]
    ELSE NoFilter

token_has_letters_and_digits(token) ==
    /\ \E i \in DOMAIN token : is_ascii_alphabetic(token[i])
    /\ \E i \in DOMAIN token : is_digit(token[i])

\* a variant of chassis_tokens: every token counts as a chassis token
chassis_tokens_all(model_tokens) == model_tokens

chassis_tokens(model_tokens) ==
    SelectSeq(model_tokens, token_has_letters_and_digits)

meaningful_tokens(model_tokens) ==
    SelectSeq(model_tokens,
              LAMBDA token : Len(token) >= 3
                             /\ token # <<"s", "e", "r", "i", "e", "s">>)

(***************************************************************************)
(* The in-memory form: matches_filters, lines 580-706.                     *)
(***************************************************************************)
matches_simple_value(haystacks, filter_value) ==
    \E h \in DOMAIN haystacks :
        \/ contains(haystacks[h], filter_value)
        \/ LET tokens == split_whitespace(haystacks[h]) IN
           \E i \in DOMAIN tokens : eq_ignore_ascii_case(tokens[i], filter_value)

\* the number of the tokens that match, a token counted as often as it
\* occurs
count_matches(haystacks, tokens) ==
    Cardinality({i \in DOMAIN tokens : matches_simple_value(haystacks, tokens[i])})

\* a variant of majority: every meaningful token must match
majority_is_all(matches, len) == matches >= len

\* line 689
majority(matches, len) == matches * 2 >= len

\* lines 669-671
any_chassis_token(haystacks, tokens) ==
    \E i \in DOMAIN tokens : matches_simple_value(haystacks, tokens[i])

matches_model_filter(haystacks, model_filter) ==
    IF matches_simple_value(haystacks, model_filter) THEN TRUE
    ELSE LET model_tokens == split_whitespace(model_filter) IN
         IF model_tokens = <<>> THEN FALSE
         ELSE IF chassis_tokens(model_tokens) # <<>>
         THEN any_chassis_token(haystacks, chassis_tokens(model_tokens))
         ELSE IF meaningful_tokens(model_tokens) = <<>> THEN FALSE
         ELSE majority(count_matches(haystacks, meaningful_tokens(model_tokens)),
                       Len(meaningful_tokens(model_tokens)))

\* a variant of compact_match: the haystack keeps its spaces
compact_match_keeps_spaces(haystacks, compact_filter) ==
    \E h \in DOMAIN haystacks : contains(haystacks[h], compact_filter)

\* lines 702-705
compact_match(haystacks, compact_filter) ==
    \E h \in DOMAIN haystacks :
        contains(remove_spaces(haystacks[h]), compact_filter)

matches_engine_filter(haystacks, engine_filter) ==
    IF matches_simple_value(haystacks, engine_filter) THEN TRUE
    ELSE LET compact_filter == remove_spaces(engine_filter) IN
         IF compact_filter = <<>> THEN FALSE
         ELSE compact_match(haystacks, compact_filter)

matches_filters(item, mods_query) ==
    LET haystacks == build_search_haystacks(item)
        make_filter == applied(mods_query.make)
        model_filter == applied(mods_query.model)
        engine_filter == applied(mods_query.engine)
    IN
    /\ make_filter.some => matches_simple_value(haystacks, make_filter.val)
    /\ model_filter.some => matches_model_filter(haystacks, model_filter.val)
    /\ engine_filter.some => matches_engine_filter(haystacks, engine_filter.val)

(***************************************************************************)
(* The pushdown form: the WHERE clause query_mods_from_db builds, lines    *)
(* 990-1085, over the search_text and search_compact a row was stored      *)
(* with (upsert_store_mods, lines 1164-1165).                              *)
(***************************************************************************)
stored_row(item) ==
    [search_text |-> build_search_text(item),
     search_compact |-> remove_spaces(build_search_text(item))]

\* column LIKE '%value%', for a value without % or _ (a normalized filter
\* has letters, digits and single spaces only)
like(column, value) == contains(column, value)

\* (CASE WHEN search_text LIKE token THEN 1 ELSE 0 END) + ...
sum_of_cases(row, tokens) ==
    Cardinality({i \in DOMAIN tokens : like(row.search_text, tokens[i])})

\* line 1046
threshold(len) == (len + 1) \div 2

where_make(row, make_filter) == like(row.search_text, make_filter)

where_model(row, model_filter) ==
    LET model_tokens == split_whitespace(model_filter) IN
    IF model_tokens = <<>> THEN FALSE
    ELSE IF chassis_tokens(model_tokens) # <<>>
    THEN \/ like(row.search_text, model_filter)
         \/ \E i \in DOMAIN chassis_tokens(model_tokens) :
                like(row.search_text, chassis_tokens(model_tokens)[i])
    ELSE IF meaningful_tokens(model_tokens) = <<>> THEN FALSE
    ELSE \/ like(row.search_text, model_filter)
         \/ sum_of_cases(row, meaningful_tokens(model_tokens))
                >= threshold(Len(meaningful_tokens(model_tokens)))

where_engine(row, engine_filter) ==
    LET compact_filter == remove_spaces(engine_filter) IN
    \/ like(row.search_text, engine_filter)
    \/ compact_filter # <<>> /\ like(row.search_compact, compact_filter)

query_mods_from_db(row, mods_query) ==
    LET make_filter == applied(mods_query.make)
        model_filter == applied(mods_query.model)
        engine_filter == applied(mods_query.engine)
    IN
    /\ make_filter.some => where_make(row, make_filter.val)
    /\ model_filter.some => where_model(row, model_filter.val)
    /\ engine_filter.some => where_engine(row, engine_filter.val)

(***************************************************************************)
(* One record and one filter set, matched in both forms.  The texts are    *)
(* raw: upper case, "-" between words.                                     *)
(***************************************************************************)
G35 == <<"G", "3", "5">>
Sedan == <<"S", "e", "d", "a", "n">>
Supra == <<"S", "u", "p", "r", "a">>
MKIV == <<"M", "K", "I", "V">>
GT == <<"G", "T">>
Series == <<"S", "e", "r", "i", "e", "s">>
TwoJZ == <<"2", "J", "Z">>
GTE == <<"G", "T", "E">>
TwoJZGTE == <<"2", "J", "Z", "G", "T", "E">>
\* a text without a letter or a digit
Punctuation == <<"-", "!">>

\* the texts of no, one or two words of a set, "-" between the words
Phrases(words) ==
    {<<>>} \cup words \cup {v \o <<"-">> \o w : v, w \in words}

Items ==
    [title : Phrases({G35, Supra, MKIV, TwoJZ, GTE}),
     vendor : {<<>>},
     product_type : {<<>>},
     tags : {<<>>} \cup {<<tag>> : tag \in {G35, MKIV, GTE, TwoJZGTE, Series}}]

Filters(texts) == {NoFilter} \cup {[some |-> TRUE, val |-> text] : text \in texts}

\* the filter sets with one or two filters given
Queries ==
    {q \in [make : Filters({Supra, Supra \o <<" ">> \o MKIV}),
            model : Filters(Phrases({G35, Sedan, Supra, MKIV, GT, Series})
                                \cup {Punctuation}),
            engine : Filters(Phrases({TwoJZ, GTE}) \cup {TwoJZGTE})] :
        /\ q.make.some \/ q.model.some \/ q.engine.some
        /\ ~(q.make.some /\ q.model.some /\ q.engine.some)}

MatcherInit ==
    /\ ServiceIdle
    /\ paginator = NoPaginator
    /\ fetcher = NoFetcher
    /\ pager = NoPager
    /\ backoff = NoBackoff
    /\ pricer = NoPricer
    /\ \E item \in Items :
       \E mods_query \in Queries :
          matcher = [NoMatcher EXCEPT !.item = item, !.query = mods_query,
                                      !.pc = "call"]

\* the record is matched by matches_filters, and its stored row by the
\* WHERE clause of query_mods_from_db
match ==
    /\ matcher.pc = "call"
    /\ matcher' =
           [matcher EXCEPT
               !.in_memory = matches_filters(matcher.item, matcher.query),
               !.pushdown = query_mods_from_db(stored_row(matcher.item),
                                               matcher.query),
               !.pc = "returned"]
    /\ UNCHANGED <<service_vars, paginator, fetcher, pager, backoff, pricer>>

MatcherNext == match

MatcherSpec == MatcherInit /\ [][MatcherNext]_vars

\* C15, as claimed: for every filter set and every stored record,
\* matches_filters accepts the record exactly when the query built by
\* query_mods_from_db returns it
C15_FormsAgree ==
    matcher.pc = "returned" => matcher.in_memory = matcher.pushdown

\* C15 witness: a make filter of two words that are found in two fields of
\* the record, the title and a tag: the stored search_text holds the
\* phrase and the query returns the row, while no single haystack holds it
\* and matches_filters rejects the record
C15_Witness ==
    /\ matcher.pc = "returned"
    /\ matcher.query.make = [some |-> TRUE, val |-> Supra \o <<" ">> \o MKIV]
    /\ ~matcher.query.model.some
    /\ ~matcher.query.engine.some
    /\ matcher.item.title = Supra
    /\ matcher.item.tags = <<MKIV>>
    /\ matcher.pushdown
    /\ ~matcher.in_memory

\* C16: a filter query with make, model and engine all absent is answered
\* with BadRequest in its first step, before any work: the step leaves the
\* table, the lock, its queue and the task's job and transaction as they
\* were, no count or read of the table comes before it, and the task's
\* only further step is to send that response
C16_BadRequestBeforeWork ==
    [][\A p \in Procs :
          /\ (req'[p] = "query_unfiltered" /\ req[p] # "query_unfiltered") =>
                 /\ pc[p] = "idle"
                 /\ pc'[p] = "respond"
                 /\ ret'[p] = Err("BadRequest")
                 /\ UNCHANGED <<db, clock, holder, waiters, committed, job, tx>>
          /\ (req[p] = "query_unfiltered" /\ pc'[p] # pc[p]) =>
                 /\ pc[p] = "respond"
                 /\ pc'[p] = "idle"
                 /\ req'[p] = "none"
                 /\ UNCHANGED <<db, clock, holder, waiters, committed, job, tx>>
      ]_vars

\* C16 witness: a query without filters is being answered BadRequest while
\* the table is empty, where a query with a filter would have started the
\* bootstrap scrape, and nobody holds or awaits the lock
C16_Witness ==
    \E p \in Procs :
        /\ req[p] = "query_unfiltered"
        /\ pc[p] = "respond"
        /\ ret[p] = Err("BadRequest")
        /\ db = {}
        /\ holder = NoProc
        /\ waiters = <<>>

\* C17: the list a filter query returns is ordered by updated_at
\* descending: no row comes before a row that a later transaction touched
C17_OrderedByFreshness ==
    [][\A p \in Procs :
          (pc[p] = "query" /\ req[p] = "query" /\ pc'[p] = "respond"
              /\ ret'[p].ok) =>
              LET list == ret'[p].val
                  updated_at(item) ==
                      (CHOOSE row \in db : row.id = item.id).updated_at
              IN
              /\ \A i \in DOMAIN list : \E row \in db : row_to_mod(row) = list[i]
              /\ \A i, j \in DOMAIN list :
                     i < j => updated_at(list[i]) >= updated_at(list[j])
      ]_vars

\* C17 witness: a filter query has returned three rows, the first from a
\* later transaction than the other two
C17_Witness ==
    \E p \in Procs :
        /\ pc[p] = "respond"
        /\ req[p] = "query"
        /\ ret[p].ok
        /\ Len(ret[p].val) = 3
        /\ \E first, last \in db :
               /\ row_to_mod(first) = ret[p].val[1]
               /\ row_to_mod(last) = ret[p].val[3]
               /\ first.updated_at > last.updated_at

\* the filter set has the model filter only / the engine filter only
OnlyModel(mods_query) ==
    /\ applied(mods_query.model).some
    /\ ~applied(mods_query.make).some
    /\ ~applied(mods_query.engine).some

OnlyEngine(mods_query) ==
    /\ applied(mods_query.engine).some
    /\ ~applied(mods_query.make).some
    /\ ~applied(mods_query.model).some

\* the positions of the tokens of a list that are substrings of one of the
\* record's normalized fields / of the row's search_text
FoundInFields(item, tokens) ==
    {i \in DOMAIN tokens :
        \E h \in DOMAIN build_search_haystacks(item) :
            contains(build_search_haystacks(item)[h], tokens[i])}

FoundInSearchText(item, tokens) ==
    {i \in DOMAIN tokens : contains(stored_row(item).search_text, tokens[i])}

\* the tokens of a filter with a letter and a digit
ChassisOf(model_filter) ==
    SelectSeq(split_whitespace(model_filter), token_has_letters_and_digits)

\* C18: when the model filter fails the simple match and has a token with
\* a letter and a digit, the record matches exactly when one of those
\* chassis tokens is a substring of the record's text, in the in-memory
\* form and in the pushdown form; the other tokens play no part
C18_ChassisBranch ==
    LET model_filter == applied(matcher.query.model).val IN
    (matcher.pc = "returned" /\ OnlyModel(matcher.query)
        /\ ~matches_simple_value(build_search_haystacks(matcher.item), model_filter)
        /\ ChassisOf(model_filter) # <<>>) =>
        /\ matcher.in_memory <=>
               FoundInFields(matcher.item, ChassisOf(model_filter)) # {}
        /\ matcher.pushdown <=>
               FoundInSearchText(matcher.item, ChassisOf(model_filter)) # {}

\* C18 witness: a record tagged "G35" and the model filter "g35 sedan",
\* which is no substring of the record's fields: the record matches
C18_Witness ==
    /\ matcher.pc = "returned"
    /\ matcher.item.title = Supra
    /\ matcher.item.tags = <<G35>>
    /\ matcher.query.model = [some |-> TRUE, val |-> G35 \o <<"-">> \o Sedan]
    /\ OnlyModel(matcher.query)
    /\ matcher.in_memory
    /\ matcher.pushdown

\* the least c with 2 * c >= n
ceil_half(n) == CHOOSE c \in 0..n : 2 * c >= n /\ (c = 0 \/ 2 * (c - 1) < n)

\* the tokens of a filter of length >= 3 other than "series"
MeaningfulOf(model_filter) ==
    SelectSeq(split_whitespace(model_filter),
              LAMBDA token : Len(token) >= 3
                             /\ token # <<"s", "e", "r", "i", "e", "s">>)

\* C19: when the model filter fails the simple match and has no chassis
\* token, with M its tokens of length >= 3 other than "series", the record
\* matches exactly when M is not empty and at least ceil(|M|/2) tokens of
\* M are substrings of the record's text, in both forms; and the in-memory
\* test matches * 2 >= |M| and the pushdown threshold (|M|+1)/2 agree with
\* ceil(|M|/2) for every |M|
C19_MajorityBranch ==
    LET model_filter == applied(matcher.query.model).val
        M == MeaningfulOf(model_filter)
    IN
    /\ \A len \in 1..MaxTokens :
           /\ threshold(len) = ceil_half(len)
           /\ \A matches \in 0..len :
                  majority(matches, len) <=> matches >= ceil_half(len)
    /\ (matcher.pc = "returned" /\ OnlyModel(matcher.query)
           /\ ~matches_simple_value(build_search_haystacks(matcher.item),
                                    model_filter)
           /\ ChassisOf(model_filter) = <<>>) =>
           /\ matcher.in_memory <=>
                  /\ M # <<>>
                  /\ Cardinality(FoundInFields(matcher.item, M))
                         >= ceil_half(Len(M))
           /\ matcher.pushdown <=>
                  /\ M # <<>>
                  /\ Cardinality(FoundInSearchText(matcher.item, M))
                         >= ceil_half(Len(M))

\* C19 witness: the model filter "supra mkiv" and a record whose text has
\* "mkiv" and not "supra": one meaningful token of two matches, and the
\* record matches
C19_Witness ==
    /\ matcher.pc = "returned"
    /\ matcher.item.title = G35
    /\ matcher.item.tags = <<MKIV>>
    /\ matcher.query.model = [some |-> TRUE, val |-> Supra \o <<"-">> \o MKIV]
    /\ OnlyModel(matcher.query)
    /\ matcher.in_memory
    /\ matcher.pushdown

\* C20: with the engine filter alone, the record matches exactly when the
\* normalized filter passes the simple match or the filter without its
\* spaces is a substring of the record's text without its spaces: of one
\* of the normalized fields for the in-memory form, of the stored
\* search_text and search_compact for the pushdown form
C20_EngineCompact ==
    LET engine_filter == applied(matcher.query.engine).val
        haystacks == build_search_haystacks(matcher.item)
        row == stored_row(matcher.item)
    IN
    (matcher.pc = "returned" /\ OnlyEngine(matcher.query)) =>
        /\ matcher.in_memory <=>
               \/ matches_simple_value(haystacks, engine_filter)
               \/ \E h \in DOMAIN haystacks :
                      contains(SelectSeq(haystacks[h], LAMBDA ch : ch # " "),
                               SelectSeq(engine_filter, LAMBDA ch : ch # " "))
        /\ matcher.pushdown <=>
               \/ contains(row.search_text, engine_filter)
               \/ contains(SelectSeq(row.search_text, LAMBDA ch : ch # " "),
                           SelectSeq(engine_filter, LAMBDA ch : ch # " "))

\* C20 witness: the engine filter "2JZ GTE" and a record whose text is
\* "2jzgte": the simple match fails and the record matches
C20_Witness ==
    /\ matcher.pc = "returned"
    /\ matcher.item.title = <<>>
    /\ matcher.item.tags = <<TwoJZGTE>>
    /\ matcher.query.engine = [some |-> TRUE, val |-> TwoJZ \o <<"-">> \o GTE]
    /\ OnlyEngine(matcher.query)
    /\ ~matches_simple_value(build_search_haystacks(matcher.item),
                             applied(matcher.query.engine).val)
    /\ matcher.in_memory
    /\ matcher.pushdown

\* the stores the job has dispatched so far: a prefix of the registry
Dispatched(j) == {Stores[i] : i \in 1..(j.next - 1)}

\* C21: during a job at most max(store_concurrency, 1) store paginator
\* tasks are in flight, the tasks in flight are the dispatched stores whose
\* outcome has not been taken, and the outcome taken next is that of any
\* task in flight, whatever its place in the dispatch order
C21_BoundedUnorderedFetch ==
    \A p \in Procs :
        /\ Cardinality(job[p].in_flight) <= Max(store_concurrency, 1)
        /\ job[p].in_flight =
               {s \in Dispatched(job[p]) : job[p].outcome[s] = "pending"}
        /\ pc[p] = "poll" /\ job[p].next <= Len(Stores) =>
               Cardinality(job[p].in_flight) = Max(store_concurrency, 1)

\* C21 witness: with two tasks in flight, the outcome of the store
\* dispatched second was persisted while the store dispatched first is
\* still being fetched
C21_Witness ==
    \E p \in Procs :
        /\ pc[p] = "poll"
        /\ store_concurrency = 2
        /\ Stores[1] \in job[p].in_flight
        /\ job[p].outcome[Stores[2]] = "persisted"

\* C22: the step in which a job learns that a store's pagination failed
\* adds one to stores_failed and nothing to the other counters, opens no
\* transaction and leaves the table as it was; the store stays failed until
\* the job returns; and the rows of a store change only in the transaction
\* of a job that fetched that store successfully, so a job in which the
\* store's pagination failed leaves the store's rows, content and
\* updated_at, unchanged
C22_FailedFetchKeepsRows ==
    [][\A s \in StoreIds :
          /\ \A p \in Procs :
                /\ (job[p].outcome[s] # "fetch_failed"
                      /\ job'[p].outcome[s] = "fetch_failed") =>
                      /\ job[p].outcome[s] = "pending"
                      /\ db' = db
                      /\ tx' = tx
                      /\ pc'[p] = "poll"
                      /\ job'[p].stores_failed = job[p].stores_failed + 1
                      /\ job'[p].stores_succeeded = job[p].stores_succeeded
                      /\ job'[p].mods_upserted = job[p].mods_upserted
                /\ job[p].outcome[s] = "fetch_failed" =>
                      /\ tx'[p].store_id # s
                      /\ \/ job'[p].outcome[s] = "fetch_failed"
                         \/ pc[p] = "returned" /\ job'[p] = InitJob
                /\ job[p].outcome[s] = "fetched" =>
                      job'[p].outcome[s] # "fetch_failed"
          /\ StoreRows(db', s) # StoreRows(db, s) =>
                \E p \in Procs :
                    /\ holder = p
                    /\ pc[p] = "upsert"
                    /\ tx[p].store_id = s
                    /\ job[p].outcome[s] = "fetched"
      ]_vars

\* C22 witness: a job counted the failure of the first store's pagination,
\* went on to persist the second store, and the rows an earlier job wrote
\* for the first store are still in the table
C22_Witness ==
    \E p \in Procs :
        /\ pc[p] = "poll"
        /\ job[p].outcome[Stores[1]] = "fetch_failed"
        /\ job[p].outcome[Stores[2]] = "persisted"
        /\ job[p].stores_failed = 1
        /\ StoreRows(db, Stores[1]) # {}
        /\ \A r \in StoreRows(db, Stores[1]) : r.updated_at < clock

\* C23: a call of upsert_store_mods for store S, whatever its batch and
\* whether it commits or is rolled back, leaves the rows of every other
\* store as they were, in the committed table and in the transaction's own
\* view after each of its statements
C23_OtherStoresUntouched ==
    [][\A p \in Procs :
          pc[p] = "upsert" /\ pc'[p] # "upsert" =>
              \A s \in StoreIds \ {tx[p].store_id} :
                  /\ StoreRows(db', s) = StoreRows(db, s)
                  /\ \A n \in 0..(NumChunks(tx[p].mods) + 1) :
                         StoreRows(tx_view(db, tx[p].store_id, tx[p].mods,
                                           clock + 1, n), s)
                             = StoreRows(db, s)
      ]_vars

\* C23 witness: the transaction of the second store committed a non-empty
\* batch, and the rows of the first store, all older than the
\* transaction's NOW(), are in the table
C23_Witness ==
    \E p \in Procs :
        /\ pc[p] = "upsert_ok"
        /\ tx[p].store_id = Stores[2]
        /\ tx[p].mods # <<>>
        /\ StoreRows(db, Stores[1]) # {}
        /\ \A r \in StoreRows(db, Stores[1]) : r.updated_at < tx[p].now

(***************************************************************************)
(* fetch_store_mods, one iteration of its loop at a time, against an       *)
(* upstream that answers each page request as it likes and has as many     *)
(* products as max_pages, so that every page can bring a new id.           *)
(***************************************************************************)
PagerProducts == [id : 1..max_pages, content : {"a"}]

\* what fetch_page_payload can return for one page request
PagerAnswers ==
    {Ok(products) : products \in SeqsUpTo(PagerProducts, page_limit)}
        \cup {Err("Upstream")}

\* a variant of no_new_products: the check is not made
no_new_products_unchecked(new_products) == FALSE

\* line 428
no_new_products(new_products) == new_products = 0

\* a variant of is_last_page: a full page is a last page too
is_last_page_when_full(fetched_count) == fetched_count <= page_limit

\* line 436
is_last_page(fetched_count) == fetched_count < page_limit

\* a variant of past_max_pages: no ceiling
past_max_pages_never(page) == FALSE

\* line 441, with page already incremented
past_max_pages(page) == page > max_pages

PagerInit ==
    /\ ServiceIdle
    /\ paginator = NoPaginator
    /\ fetcher = NoFetcher
    /\ matcher = NoMatcher
    /\ backoff = NoBackoff
    /\ pricer = NoPricer
    /\ \E store \in StoreIds :
          pager = [NoPager EXCEPT !.store = store, !.page = 1, !.pc = "loop"]

\* fetch_page_payload has returned `payload` for the page: lines 400-452,
\* where the loop breaks (Ok(collected), line 454), returns the error, or
\* goes on with the next page
paged(payload) ==
    LET requested == [pager EXCEPT
                         !.requests = Append(@, pager.page),
                         !.responses = Append(@, payload)]
        fetched_count == Len(payload.val)
        st == collect_page(payload.val, 1,
                           <<pager.collected, pager.seen_product_ids, 0>>,
                           pager.store)
        pushed == [requested EXCEPT !.collected = st[1],
                                    !.seen_product_ids = st[2]]
    IN
    IF ~payload.ok
    THEN IF pager.page = 1
         THEN pager' = [requested EXCEPT !.result = Err(payload.err),
                                         !.pc = "returned"]
         ELSE pager' = [requested EXCEPT !.result = Ok(pager.collected),
                                         !.pc = "returned"]
    ELSE IF fetched_count = 0
    THEN pager' = [requested EXCEPT !.result = Ok(pager.collected),
                                    !.pc = "returned"]
    ELSE IF no_new_products(st[3]) \/ is_last_page(fetched_count)
            \/ past_max_pages(pager.page + 1)
    THEN pager' = [pushed EXCEPT
                      !.page = IF no_new_products(st[3])
                                  \/ is_last_page(fetched_count)
                               THEN @ ELSE @ + 1,
                      !.result = Ok(st[1]),
                      !.pc = "returned"]
    ELSE pager' = [pushed EXCEPT !.page = @ + 1]

\* one iteration of the loop, lines 399-452: the page is requested and
\* fetch_page_payload returns
fetch_page ==
    /\ pager.pc = "loop"
    /\ \E payload \in PagerAnswers : paged(payload)
    /\ UNCHANGED <<service_vars, paginator, fetcher, matcher, backoff, pricer>>

PagerNext == fetch_page

\* every call of fetch_page_payload returns
PagerSpec == PagerInit /\ [][PagerNext]_vars /\ WF_vars(fetch_page)

\* the answers to the page requests so far, as a script of max_pages pages
\* whose pages not requested fail
ScriptOf(responses) ==
    [k \in 1..max_pages |->
        IF k \in DOMAIN responses THEN responses[k] ELSE Err("Upstream")]

\* the loop, one iteration at a time, returns what fetch_store_mods returns
PagerAgrees ==
    pager.pc = "returned" =>
        pager.result = fetch_store_mods(ScriptOf(pager.responses), pager.store)

\* the ids of a page that the pages requested before it did not list
NewIds(responses, k) ==
    {responses[k].val[i].id : i \in DOMAIN responses[k].val}
        \ UNION {{responses[j].val[i].id : i \in DOMAIN responses[j].val}
                 : j \in 1..(k - 1)}

\* C24: the pages requested are 1, 2, ... in order and never a page above
\* max_pages, so that a call makes at most max_pages requests; and, every
\* request being answered, the call returns
C24_AtMostMaxPages ==
    /\ [](/\ Len(pager.requests) <= max_pages
          /\ \A i \in DOMAIN pager.requests :
                 pager.requests[i] = i /\ pager.requests[i] <= max_pages
          /\ pager.pc = "loop" => pager.page = Len(pager.requests) + 1
                                     /\ pager.page <= max_pages)
    /\ <>(pager.pc = "returned")

\* C24 witness: every page up to max_pages was full and brought a new id;
\* max_pages pages were requested and the call returned their records
C24_Witness ==
    /\ pager.pc = "returned"
    /\ pager.requests = [i \in 1..max_pages |-> i]
    /\ \A k \in 1..max_pages :
           /\ pager.responses[k].ok
           /\ Len(pager.responses[k].val) = page_limit
           /\ NewIds(pager.responses, k) # {}
    /\ pager.result.ok
    /\ Len(pager.result.val) = max_pages

\* C25: after a page with fewer raw products than page_limit no further
\* page is requested and the records collected, this page's new ones
\* included, are returned; after a page of page_limit raw products, one
\* of them new, with an index below max_pages, the loop goes on to request
\* the next page
C25_ShortPageStops ==
    [][pager.pc = "loop" =>
          LET k == Len(pager.requests')
              payload == pager.responses'[k]
          IN
          /\ k = pager.page
          /\ (payload.ok /\ Len(payload.val) < page_limit) =>
                 /\ pager.pc' = "returned"
                 /\ pager.result'.ok
                 /\ pager.result'.val = pager.collected'
                 /\ \A i \in DOMAIN pager.collected :
                        pager.collected'[i] = pager.collected[i]
                 /\ Len(pager.collected') =
                        Len(pager.collected)
                            + Cardinality(NewIds(pager.responses', k))
          /\ (payload.ok /\ Len(payload.val) = page_limit
                 /\ NewIds(pager.responses', k) # {} /\ k < max_pages) =>
                 /\ pager.pc' = "loop"
                 /\ pager.page' = k + 1
                 /\ ENABLED fetch_page
      ]_vars

\* C25 witness: page 1 listed one id twice, which is a full page with one
\* new product, so page 2 was requested; page 2 had one product and the
\* call returned
C25_Witness ==
    /\ pager.pc = "returned"
    /\ pager.requests = <<1, 2>>
    /\ pager.responses[1].ok
    /\ Len(pager.responses[1].val) = page_limit
    /\ Cardinality(NewIds(pager.responses, 1)) = 1
    /\ pager.responses[2].ok
    /\ Len(pager.responses[2].val) = 1
    /\ NewIds(pager.responses, 2) # {}
    /\ Len(pager.result.val) = 2

\* C26: after a non-empty page none of whose ids is new no further page is
\* requested and the records collected before it are returned; when every
\* answer so far is the same full page, at most two pages were requested
C26_RepeatedPageStops ==
    [][pager.pc = "loop" =>
          LET k == Len(pager.requests')
              payload == pager.responses'[k]
          IN
          /\ (payload.ok /\ payload.val # <<>>
                 /\ NewIds(pager.responses', k) = {}) =>
                 /\ pager.pc' = "returned"
                 /\ pager.result' = Ok(pager.collected)
          /\ (\A j \in 1..k :
                  /\ pager.responses'[j] = pager.responses'[1]
                  /\ pager.responses'[j].ok
                  /\ Len(pager.responses'[j].val) = page_limit) =>
                 /\ k <= 2
                 /\ k = 2 => pager.pc' = "returned"
      ]_vars

\* C26 witness: the upstream answered page 2 with the full page it had
\* answered page 1 with; the call returned the records of page 1 after two
\* requests
C26_Witness ==
    /\ pager.pc = "returned"
    /\ pager.requests = <<1, 2>>
    /\ pager.responses[1].ok
    /\ Len(pager.responses[1].val) = page_limit
    /\ pager.responses[2] = pager.responses[1]
    /\ pager.result.ok
    /\ Len(pager.result.val) = Cardinality(NewIds(pager.responses, 1))

(***************************************************************************)
(* retry_delay_for_429 without a usable Retry-After, over the attempts of  *)
(* one page fetch, for the base delays and the retry counts                *)
(* load_scrape_config admits.                                              *)
(***************************************************************************)
\* SCRAPE_RETRY_BASE_DELAY_MS: its least and greatest value
retry_base_delay_min == 100
retry_base_delay_max == 60000
\* SCRAPE_MAX_429_RETRIES: its greatest value
max_429_retries_max == 20

RECURSIVE TwoTo(_)
TwoTo(a) == IF a = 0 THEN 1 ELSE 2 * TwoTo(a - 1)

\* the base delays checked: BaseSamples + 1 values spread evenly over the
\* range, and the values around the points where a clamp starts or stops
\* to apply
BackoffBases ==
    {b \in retry_base_delay_min..retry_base_delay_max :
        \/ (b - retry_base_delay_min)
               % ((retry_base_delay_max - retry_base_delay_min) \div BaseSamples)
             = 0
        \/ \E k \in 0..8 :
               b * TwoTo(k) \in {249, 250, 251, 29999, 30000, 30001}
        \/ b \in {retry_base_delay_min + 1, retry_base_delay_max - 1}}

\* the Retry-After headers that give no number of seconds
UnusableHeaders == {h \in Headers : ~h.present \/ ~parse_u64(h.raw).some}

BackoffInit ==
    /\ ServiceIdle
    /\ paginator = NoPaginator
    /\ fetcher = NoFetcher
    /\ matcher = NoMatcher
    /\ pager = NoPager
    /\ pricer = NoPricer
    /\ \E retry_base_delay \in BackoffBases :
          backoff = [NoBackoff EXCEPT !.retry_base_delay = retry_base_delay]

\* a 429 at retry attempt `attempt`: line 487, then line 496
next_delay ==
    /\ backoff.attempt <= max_429_retries_max
    /\ \E retry_after \in UnusableHeaders :
          backoff' =
              [backoff EXCEPT
                  !.delays = Append(@, retry_delay_for_429(
                                           retry_after,
                                           backoff.retry_base_delay,
                                           backoff.attempt)),
                  !.attempt = @ + 1]
    /\ UNCHANGED <<service_vars, paginator, fetcher, matcher, pager, pricer>>

BackoffNext == next_delay

BackoffSpec == BackoffInit /\ [][BackoffNext]_vars

\* min(max(base * 2^a, 250), 30000); for a > 15 the product is above 30000
\* whatever the base
CappedBackoff(base, a) ==
    IF a > 15 THEN 30000
    ELSE LET product == base * TwoTo(a) IN
         IF product < 250 THEN 250
         ELSE IF product > 30000 THEN 30000 ELSE product

\* C27: without a usable Retry-After the wait at attempt a is
\* min(max(base * 2^a, 250), 30000) ms; for the bases of [100, 60000] and
\* the attempts 0..20 neither the power nor the product exceeds 64 bits,
\* the wait is within [250, 30000] and no wait is shorter than the one at
\* the attempt before (stated of the latest wait, in every state)
C27_BackoffClamped ==
    backoff.delays # <<>> =>
        LET i == Len(backoff.delays)
            a == i - 1
            base == backoff.retry_base_delay
            exp == saturating_pow2(a)
            product == mul(bits(base), exp)
        IN
        /\ backoff.delays[i] = CappedBackoff(base, a)
        /\ backoff.delays[i] >= 250
        /\ backoff.delays[i] <= 30000
        /\ i > 1 => backoff.delays[i - 1] <= backoff.delays[i]
        /\ a < U64_BITS
        /\ exp # u64_max
        /\ fits(product, U64_BITS)
        /\ saturating_mul(bits(base), exp) = product

\* C27 witness: with the base delay 100 ms the waits of the attempts 0..20
\* start at the floor (250, 250, 400, ...), double up to 25600 and stay at
\* the ceiling from attempt 9 on
C27_Witness ==
    /\ backoff.retry_base_delay = retry_base_delay_min
    /\ backoff.attempt = max_429_retries_max + 1
    /\ backoff.delays[1] = 250
    /\ backoff.delays[2] = 250
    /\ backoff.delays[3] = 400
    /\ backoff.delays[9] = 25600
    /\ backoff.delays[10] = 30000
    /\ backoff.delays[max_429_retries_max + 1] = 30000

\* C28: a request that fails to be sent, a response with an error status
\* other than 429 and a 200 response whose body does not decode each end
\* the call with an upstream error: no sleep and no further request
\* follow, whatever the number of 429 retries left
C28_HardFailureNotRetried ==
    [][/\ fetcher.pc = "send" =>
             LET last == fetcher.responses'[Len(fetcher.responses')] IN
             /\ Len(fetcher.requests') = Len(fetcher.requests) + 1
             /\ (last.status \in {"send_error", "500"}
                   \/ (last.status = "200" /\ ~fetcher.result'.ok)) =>
                   /\ fetcher.pc' = "returned"
                   /\ fetcher.result' = Err("Upstream")
                   /\ fetcher.attempt' = fetcher.attempt
                   /\ fetcher.delay' = fetcher.delay
       /\ fetcher.pc = "returned" => fetcher' = fetcher
      ]_vars

\* C28 witness: with two retries allowed, the first request was answered
\* 429 and the second with a server error; the call returned the failure
\* after two requests, one retry unused
C28_Witness ==
    /\ fetcher.pc = "returned"
    /\ fetcher.max_429_retries = 2
    /\ Len(fetcher.responses) = 2
    /\ fetcher.responses[1].status = "429"
    /\ fetcher.responses[2].status = "500"
    /\ fetcher.requests = <<fetcher.page, fetcher.page>>
    /\ fetcher.attempt = 1
    /\ fetcher.result = Err("Upstream")

(***************************************************************************)
(* extract_price: one call, for any list of variants.  A price is a string *)
(* of characters; its value is kept in hundredths, the prices of the model *)
(* having at most two decimals.                                            *)
(***************************************************************************)
\* f64: the sign and the magnitude in hundredths
F64(negative, hundredths) == [negative |-> negative, hundredths |-> hundredths]

\* 0.0
Zero == F64(FALSE, 0)

\* the digits before the first "." of a string, and what follows that "."
before_point(text) ==
    IF \E i \in DOMAIN text : text[i] = "."
    THEN SubSeq(text, 1, (CHOOSE i \in DOMAIN text :
                             /\ text[i] = "."
                             /\ \A j \in 1..(i - 1) : text[j] # ".") - 1)
    ELSE text

after_point(text) ==
    IF \E i \in DOMAIN text : text[i] = "."
    THEN SubSeq(text, Len(before_point(text)) + 2, Len(text))
    ELSE <<>>

\* value.parse::<f64>().ok() for decimal notation: an optional sign, digits
\* with an optional "." among them, and one digit at least; anything else
\* in the string (a blank, a letter, a second ".") makes the parse fail
parse_f64(raw) ==
    LET signed == raw # <<>> /\ Head(raw) \in {"+", "-"}
        number == IF signed THEN Tail(raw) ELSE raw
        whole == before_point(number)
        fraction == after_point(number)
        cents == SubSeq(fraction \o <<"0", "0">>, 1, 2)
    IN
    IF /\ Len(whole) + Len(fraction) > 0
       /\ \A i \in DOMAIN whole : is_digit(whole[i])
       /\ \A i \in DOMAIN fraction : is_digit(fraction[i])
    THEN Some(F64(signed /\ Head(raw) = "-",
                  decimal(whole, Len(whole)) * 100 + decimal(cents, 2)))
    ELSE None

\* Option<String>
NoPrice == [some |-> FALSE, val |-> <<>>]

\* the prices a variant can come with
PriceTexts ==
    {<<"1", "9", ".", "9", "9">>, <<"5">>, <<"N", "/", "A">>, <<>>,
     <<" ", "5">>, <<"-", "5">>}

\* struct ShopifyVariant
ShopifyVariant ==
    [price : {NoPrice} \cup {[some |-> TRUE, val |-> text] : text \in PriceTexts}]

\* variants.iter().find_map(|variant| variant.price.as_ref())
first_price(variants) ==
    IF \E i \in DOMAIN variants : variants[i].price.some
    THEN variants[CHOOSE i \in DOMAIN variants :
                      /\ variants[i].price.some
                      /\ \A j \in 1..(i - 1) : ~variants[j].price.some].price
    ELSE NoPrice

\* extract_price, lines 572-578
extract_price(variants) ==
    LET found == first_price(variants)
        parsed == IF found.some THEN parse_f64(found.val) ELSE None
    IN IF parsed.some THEN parsed.val ELSE Zero

PricerInit ==
    /\ ServiceIdle
    /\ paginator = NoPaginator
    /\ fetcher = NoFetcher
    /\ matcher = NoMatcher
    /\ pager = NoPager
    /\ backoff = NoBackoff
    /\ \E variants \in SeqsUpTo(ShopifyVariant, MaxVariants) :
          pricer = [variants |-> variants, pc |-> "call", price |-> <<>>]

\* normalize_product, line 537: extract_price(&product.variants) returns
price ==
    /\ pricer.pc = "call"
    /\ pricer' = [pricer EXCEPT !.price = extract_price(pricer.variants),
                                !.pc = "returned"]
    /\ UNCHANGED <<service_vars, paginator, fetcher, matcher, pager, backoff>>

PricerNext == price

PricerSpec == PricerInit /\ [][PricerNext]_vars

\* the positions of the variants whose price is present and parses
Parseable(variants) ==
    {i \in DOMAIN variants :
        variants[i].price.some /\ parse_f64(variants[i].price.val).some}

\* C29: the price extract_price returns is the value of the first variant,
\* in upstream order, whose price parses as a decimal, a variant with an
\* unparseable price being passed over, and 0.0 when no variant has one
C29_FirstParseablePrice ==
    pricer.pc = "returned" =>
        LET ok == Parseable(pricer.variants) IN
        pricer.price =
            IF ok = {} THEN Zero
            ELSE parse_f64(pricer.variants[
                     CHOOSE i \in ok : \A j \in ok : i <= j].price.val).val

\* C29 witness: the first variant's price is "N/A", the second's is
\* "19.99", and extract_price returned 0.0
C29_Witness ==
    /\ pricer.pc = "returned"
    /\ Len(pricer.variants) = 2
    /\ pricer.variants[1].price = [some |-> TRUE, val |-> <<"N", "/", "A">>]
    /\ pricer.variants[2].price =
           [some |-> TRUE, val |-> <<"1", "9", ".", "9", "9">>]
    /\ parse_f64(pricer.variants[2].price.val) = Some(F64(FALSE, 1999))
    /\ pricer.price = Zero

\* C30: a handler counts the rows while it does not hold the lock, and
\* queues for the lock exactly when it counted none (or answers with the
\* error of a failed count); once the lock is granted to a queued task that
\* task starts a job over every store with no second look at the table,
\* whatever another job has written meanwhile
C30_BootstrapNotRechecked ==
    [][\A p \in Procs :
          /\ (pc[p] = "seed" /\ pc'[p] # "seed") =>
                /\ holder # p
                /\ p \in Handlers
                /\ pc'[p] \in {"waiting", "query", "respond"}
                /\ pc'[p] = "waiting" =>
                      /\ db = {}
                      /\ waiters' = Append(waiters, p)
                /\ pc'[p] = "query" => db # {}
                /\ pc'[p] = "respond" => ret'[p] = Err("Database")
          /\ (pc[p] = "waiting" /\ pc'[p] # "waiting") =>
                /\ pc'[p] = "poll"
                /\ holder = NoProc
                /\ holder' = p
                /\ db' = db
                /\ job'[p].in_flight # {}
                /\ job'[p].in_flight = Dispatched(job'[p])
                /\ \A s \in StoreIds : job'[p].outcome[s] = "pending"
          /\ (pc[p] = "poll" /\ pc'[p] = "returned") =>
                \A s \in StoreIds : job[p].outcome[s] # "pending"
      ]_vars

\* C30 witness: two requests found the table empty; the first ran its job
\* and filled the table, and the second, granted the lock afterwards, is
\* running a job of its own over a table that is no longer empty
C30_Witness ==
    \E p, q \in Handlers :
        /\ p # q
        /\ req[p] \in {"query", "lookup"}
        /\ pc[p] \in {"query", "respond"}
        /\ ret[p].ok
        /\ req[q] \in {"query", "lookup"}
        /\ pc[q] = "poll"
        /\ holder = q
        /\ job[q].in_flight # {}
        /\ \A s \in StoreIds : job[q].outcome[s] = "pending"
        /\ db # {}

\* the ids of the records of a batch
BatchIds(mods) == {mods[i].id : i \in DOMAIN mods}

NormalizesToEmpty(filter) ==
    /\ filter.some
    /\ \A i \in DOMAIN filter.val :
           ~is_ascii_alphanumeric(filter.val[i])

\* C32: a filter that is given and normalizes to the empty string changes
\* the outcome of neither form: the record matches as it does with that
\* filter left out; and a query whose given filters all normalize to the
\* empty string passes the check of get_mods and matches every record in
\* both forms
C32_EmptyFilterIsNoConstraint ==
    matcher.pc = "returned" =>
        LET q == matcher.query
            given == {f \in DOMAIN q : q[f].some}
            empty == {f \in DOMAIN q : NormalizesToEmpty(q[f])}
            without == [f \in DOMAIN q |-> IF f \in empty THEN NoFilter ELSE q[f]]
        IN
        /\ empty # {} =>
               /\ matcher.in_memory = matches_filters(matcher.item, without)
               /\ matcher.pushdown =
                      query_mods_from_db(stored_row(matcher.item), without)
        /\ (given # {} /\ given = empty) =>
               /\ ~no_filter_given([f \in DOMAIN q |-> q[f].some])
               /\ matcher.in_memory
               /\ matcher.pushdown

\* C32 witness: the only filter given is the model "-!", and a record with
\* no text at all is matched in both forms
C32_Witness ==
    /\ matcher.pc = "returned"
    /\ matcher.query.model = [some |-> TRUE, val |-> Punctuation]
    /\ ~matcher.query.make.some
    /\ ~matcher.query.engine.some
    /\ matcher.item.title = <<>>
    /\ matcher.item.tags = <<>>
    /\ matcher.in_memory
    /\ matcher.pushdown

(***************************************************************************)
(* fetch_store_mods together with its calls of fetch_page_payload: the     *)
(* loop of the one calls the other once for every page, and every call     *)
(* sends the request of its page until an answer ends it.  The requests    *)
(* and responses of the whole pagination stay on record in `fetcher`.      *)
(***************************************************************************)
\* a variant of call: the attempt counter of the call before is kept
call_keeps_attempt(page) ==
    [fetcher EXCEPT !.page = page, !.delay = 0, !.result = NoRet,
                    !.pc = "send"]

\* fetch_page_payload is entered for `page`: lines 457-470
call(page) ==
    [fetcher EXCEPT !.page = page, !.attempt = 0, !.delay = 0,
                    !.result = NoRet, !.pc = "send"]

\* what the upstream answers to one request of the pagination: 429, an
\* error status, or 200 with a page of products
CrawlResponses ==
    {[status |-> "429", retry_after |-> NoHeader, body |-> Err("Upstream")],
     [status |-> "500", retry_after |-> NoHeader, body |-> Err("Upstream")]}
    \cup {[status |-> "200", retry_after |-> NoHeader, body |-> Ok(products)]
          : products \in SeqsUpTo(PagerProducts, page_limit)}

CrawlInit ==
    /\ ServiceIdle
    /\ paginator = NoPaginator
    /\ matcher = NoMatcher
    /\ backoff = NoBackoff
    /\ pricer = NoPricer
    /\ \E store \in StoreIds :
       \E max_429_retries \in 0..MaxRetries :
          /\ pager = [NoPager EXCEPT !.store = store, !.page = 1,
                                     !.pc = "loop"]
          /\ fetcher = [NoFetcher EXCEPT !.store = store, !.page = 1,
                                         !.max_429_retries = max_429_retries,
                                         !.retry_base_delay = 1000,
                                         !.pc = "send"]

\* one iteration of the loop of fetch_page_payload, lines 473-512, within
\* the pagination
send_page ==
    /\ pager.pc = "loop"
    /\ fetcher.pc = "send"
    /\ \E response \in CrawlResponses : answered(response)
    /\ UNCHANGED <<service_vars, paginator, matcher, pager, backoff, pricer>>

\* fetch_page_payload has returned to the loop of fetch_store_mods, lines
\* 400-452, which breaks or calls it for the next page
next_page ==
    /\ pager.pc = "loop"
    /\ fetcher.pc = "returned"
    /\ paged(fetcher.result)
    /\ fetcher' = IF pager'.pc = "loop" THEN call(pager'.page) ELSE fetcher
    /\ UNCHANGED <<service_vars, paginator, matcher, backoff, pricer>>

CrawlNext == send_page \/ slept \/ next_page

CrawlSpec == CrawlInit /\ [][CrawlNext]_vars

\* the requests made so far for one page
RequestsOf(page) ==
    {i \in DOMAIN fetcher.requests : fetcher.requests[i] = page}

\* the retries made so far: the requests that repeat a page
RetriesSoFar ==
    Len(fetcher.requests)
        - Cardinality({fetcher.requests[i] : i \in DOMAIN fetcher.requests})

\* C33: the attempt counter counts the retries of the page being fetched
\* and nothing else: it is 0 when the first request of any page is sent,
\* a page that is answered 429 every time gets max_429_retries retries
\* whatever the pages before it took, no page gets more, and the retries
\* of one pagination add up to max_pages * max_429_retries at most
C33_AttemptCounterPerPage ==
    /\ fetcher.attempt =
           IF fetcher.pc = "send"
           THEN Cardinality(RequestsOf(fetcher.page))
           ELSE Cardinality(RequestsOf(fetcher.page)) - 1
    /\ \A page \in 1..max_pages :
           Cardinality(RequestsOf(page)) <= fetcher.max_429_retries + 1
    /\ (fetcher.pc = "returned"
        /\ fetcher.responses[Len(fetcher.responses)].status = "429") =>
           Cardinality(RequestsOf(fetcher.page)) = fetcher.max_429_retries + 1
    /\ RetriesSoFar <= max_pages * fetcher.max_429_retries

\* C33 witness: with two retries allowed, each of the max_pages pages was
\* answered 429 twice and then with a page of products; the pagination
\* has returned after max_pages * 2 retries
C33_Witness ==
    /\ pager.pc = "returned"
    /\ pager.result.ok
    /\ pager.requests = [i \in 1..max_pages |-> i]
    /\ fetcher.max_429_retries = 2
    /\ \A page \in 1..max_pages : Cardinality(RequestsOf(page)) = 3
    /\ RetriesSoFar = max_pages * 2
    /\ fetcher.responses[Len(fetcher.responses)].status = "200"

=============================================================================
